---- MODULE Spec2Model ----
(***************************************************************************)
(* A model of the rsx sampling library: the skip-based unweighted          *)
(* reservoir engine (AbstractReservoirSampling) and the order-sampling     *)
(* engine (OrderSampling with its three key strategies).                   *)
(*                                                                         *)
(* One behaviour follows ONE engine instance from the state its            *)
(* constructor leaves.  The random source is modelled by its outcomes:     *)
(* every draw is a nondeterministic choice, and the operations take the    *)
(* draws they are going to consume as a tape, so that two operations can   *)
(* be compared under the same stream of draws.                             *)
(***************************************************************************)
EXTENDS Integers, Sequences, FiniteSets, Bags, TLC

\* ------------------------------------------------------------------ bounds
MaxSampleSize == 2      \* sample_size ranges over 1..MaxSampleSize
MaxSkip == 2            \* the skip generator yields values in 0..MaxSkip
MaxElement == 2         \* the elements are 1..MaxElement
MaxSeqLen == 2          \* longest iterable / sequence handed to a batch call
MaxStream == 4          \* elements handed to one skip-based instance during its lifetime
MaxPuts == 3            \* elements handed to one order-sampling instance
MaxWeightNum == 3       \* the finite weights are n/WeightDen, n in -1..MaxWeightNum
WeightDen == 2
RandomDen == 3          \* rng.random() returns p/RandomDen, p in 0..RandomDen-1
MaxZeroDraws == 1       \* zeros rng.random() returns to one instance during its lifetime
MaxSamples == 2         \* calls of sample() on one instance
MaxPopulation == 3      \* entries one JessenBuilder holds at a time
MaxJessenWeight == 3    \* the weights given to a JessenBuilder are 0..MaxJessenWeight
MaxInfeasible == 1      \* builds of one population that raise InfeasibleCaseError
MaxReuse == 0           \* entries a JessenBuilder holds at a time after a build succeeded

\* ---------------------------------------------------------------- elements
None == 0
Elements == 1..MaxElement
Inputs == Elements \cup {None}

RECURSIVE SeqsUpTo(_, _)
SeqsUpTo(S, n) ==
    IF n = 0 THEN {<<>>}
    ELSE LET shorter == SeqsUpTo(S, n - 1)
         IN shorter \cup {Append(s, x) : s \in {t \in shorter : Len(t) = n - 1}, x \in S}

Min(a, b) == IF a < b THEN a ELSE b

\* the bag of the items of a list
SeqBag(s) == [x \in {s[i] : i \in DOMAIN s} |-> Cardinality({i \in DOMAIN s : s[i] = x})]

\* the Python booleans returned by the operations, as they print
Bool(b) == IF b THEN "True" ELSE "False"

VARIABLES
    kind,           \* the class of the instance
    sample_size,    \* self.__sample_size
    stream_size,    \* self.__stream_size
    reservoir,      \* self.__reservoir (AbstractReservoirSampling)
    skip,           \* self.__skip
    skip_function,  \* self.__skip_function: the number of values pulled from the iterator
    rng,            \* self.__rng: the number of draws made from the random source
                    \* (an OrderSampling instance draws once per item, and once more
                    \* for each 0 it draws: at most MaxZeroDraws in all)
    heap,           \* self.__heap (OrderSampling)
    call,           \* the last call made on the instance
    result,         \* what the last call returned, or the exception it raised
    stream,         \* history: the elements the operations have gone through so far
    generated,      \* history: the bag of Weighted items an OrderSampling instance created
    yielded,        \* history: the values pulled from the skip generator (SpecTrace)
    returns,        \* history: the values put has returned (SpecTrace)
    reservoir_view, \* self.__reservoir_view (AbstractReservoirSampling)
    decorators,     \* the number of SequenceDecorator objects constructed so far
    views,          \* history: what the calls of sample() returned (SpecView)
    builder,        \* a JessenBuilder: its fields __heap and __weight_sum
    sampling,       \* the JessenSampling the last successful build returned
    infeasible,     \* history: the builds that raised InfeasibleCaseError since the
                    \* builder was last empty
    built,          \* history: the weights and weight sum the builder held when
                    \* that build was called, and the sample size it was given
    iterators,      \* the generators the calls of sample_space() have returned
    alias_method,   \* an AliasMethod constructed on its own: its fields n, u and k
    distribution,   \* history: the probabilities that AliasMethod was constructed from
    swor_generator  \* the generator a call of swor(n, k) returned

vars == <<kind, sample_size, stream_size, reservoir, skip, skip_function, rng, heap,
          call, result, stream, generated, yielded, returns,
          reservoir_view, decorators, views, builder, sampling, infeasible, built,
          iterators, alias_method,
          distribution, swor_generator>>

\* the objects of whole sampling, which the engines never touch
standalone == <<alias_method, distribution>>
\* the generator of simple sampling, which neither touches
simple == <<swor_generator>>
whole == <<builder, sampling, infeasible, built, iterators, standalone, simple>>

\* ------------------------------------------- AbstractReservoirSampling
\* The fields of the instance, as the value the methods below work on.
Self ==
    [kind |-> kind, sample_size |-> sample_size, stream_size |-> stream_size,
     reservoir |-> reservoir, skip |-> skip, skip_function |-> skip_function,
     rng |-> rng, heap |-> heap, reservoir_view |-> reservoir_view]

\* One admission consumes one slot choice (rng.randrange) and then one value of
\* the skip generator; a tape lists these pairs in the order they are consumed.
Draws(k) == [slot : 0..(k - 1), skip : 0..MaxSkip]
Tapes(k, n) == [1..n -> Draws(k)]

Outcome(self, ret, tape) == [self |-> self, ret |-> ret, tape |-> tape]

\* the call left by an exception
Raised(ret) ==
    ret \in {"ValueError", "BadWeightError", "TypeError", "NotImplementedError",
             "InfeasibleCaseError"}

\* ... had it appended the element
AbstractReservoirSampling__put_Appends(self, element, slot) ==
    [self EXCEPT !.reservoir = Append(@, element), !.rng = @ + 1]

\* self.__reservoir[self.__rng.randrange(0, self.__sample_size)] = element
AbstractReservoirSampling__put(self, element, slot) ==
    [self EXCEPT !.reservoir[slot + 1] = element, !.rng = @ + 1]

\* self.__skip = next(self.__skip_function)
NextSkip(self, value) ==
    [self EXCEPT !.skip = value, !.skip_function = @ + 1]

\* put, had it inserted at the front while the reservoir fills
put_FillsAtFront(self, element, tape) ==
    IF element = None
    THEN Outcome(self, "ValueError", tape)
    ELSE LET counted == [self EXCEPT !.stream_size = @ + 1]
         IN IF Len(counted.reservoir) < counted.sample_size
            THEN Outcome([counted EXCEPT !.reservoir = <<element>> \o @], "True", tape)
            ELSE IF counted.skip > 0
            THEN Outcome([counted EXCEPT !.skip = @ - 1], "False", tape)
            ELSE Outcome(NextSkip(AbstractReservoirSampling__put(counted, element,
                                                                 Head(tape).slot),
                                  Head(tape).skip),
                         "True", Tail(tape))

\* put, had it admitted the element one skip early
put_AdmitsOneEarly(self, element, tape) ==
    IF element = None
    THEN Outcome(self, "ValueError", tape)
    ELSE LET counted == [self EXCEPT !.stream_size = @ + 1]
         IN IF Len(counted.reservoir) < counted.sample_size
            THEN Outcome([counted EXCEPT !.reservoir = Append(@, element)], "True", tape)
            ELSE IF counted.skip > 1
            THEN Outcome([counted EXCEPT !.skip = @ - 1], "False", tape)
            ELSE Outcome(NextSkip(AbstractReservoirSampling__put(counted, element,
                                                                 Head(tape).slot),
                                  Head(tape).skip),
                         "True", Tail(tape))

AbstractReservoirSampling_put(self, element, tape) ==
    IF element = None
    THEN Outcome(self, "ValueError", tape)
    ELSE LET counted == [self EXCEPT !.stream_size = @ + 1]
         IN IF Len(counted.reservoir) < counted.sample_size
            THEN Outcome([counted EXCEPT !.reservoir = Append(@, element)], "True", tape)
            ELSE IF counted.skip > 0
            THEN Outcome([counted EXCEPT !.skip = @ - 1], "False", tape)
            ELSE Outcome(NextSkip(AbstractReservoirSampling__put(counted, element,
                                                                 Head(tape).slot),
                                  Head(tape).skip),
                         "True", Tail(tape))

RECURSIVE put_iterable_loop(_, _, _, _)
put_iterable_loop(self, iterable, changed, tape) ==
    IF iterable = <<>>
    THEN Outcome(self, Bool(changed), tape)
    ELSE LET r == AbstractReservoirSampling_put(self, Head(iterable), tape)
         IN IF r.ret = "ValueError"
            THEN r
            ELSE put_iterable_loop(r.self, Tail(iterable), changed \/ r.ret = "True", r.tape)

AbstractReservoirSampling_put_iterable(self, iterable, tape) ==
    put_iterable_loop(self, iterable, FALSE, tape)

\* the first loop of put_sequence: fill the reservoir
RECURSIVE put_sequence_fill(_, _, _, _)
\* ... had it appended the first item of the sequence every time
put_sequence_fill_First(self, sequence, offset, return_value) ==
    IF offset < Len(sequence) /\ Len(self.reservoir) < self.sample_size
    THEN put_sequence_fill([self EXCEPT !.reservoir = Append(@, sequence[1])],
                           sequence, offset + 1, TRUE)
    ELSE [self |-> self, offset |-> offset, return_value |-> return_value]
put_sequence_fill(self, sequence, offset, return_value) ==
    IF offset < Len(sequence) /\ Len(self.reservoir) < self.sample_size
    THEN put_sequence_fill([self EXCEPT !.reservoir = Append(@, sequence[offset + 1])],
                           sequence, offset + 1, TRUE)
    ELSE [self |-> self, offset |-> offset, return_value |-> return_value]

\* the second loop of put_sequence: jump to the next admitted index
RECURSIVE put_sequence_jump(_, _, _, _, _)
\* the same without the loop
put_sequence_jump_Never(self, sequence, offset, return_value, tape) ==
    [self |-> self, offset |-> offset, return_value |-> return_value, tape |-> tape]
put_sequence_jump(self, sequence, offset, return_value, tape) ==
    IF Len(sequence) > offset + self.skip
    THEN LET at == offset + self.skip
         IN put_sequence_jump(
                NextSkip(AbstractReservoirSampling__put(self, sequence[at + 1],
                                                        Head(tape).slot),
                         Head(tape).skip),
                sequence, at + 1, TRUE, Tail(tape))
    ELSE [self |-> self, offset |-> offset, return_value |-> return_value, tape |-> tape]

AbstractReservoirSampling_put_sequence(self, sequence, tape) ==
    LET filled == put_sequence_fill(self, sequence, 0, FALSE)
        jumped == put_sequence_jump(filled.self, sequence, filled.offset,
                                    filled.return_value, tape)
    IN Outcome([jumped.self EXCEPT !.skip = @ - (Len(sequence) - jumped.offset)],
               Bool(jumped.return_value), jumped.tape)

\* ---------------------------------------------------------------- weights
\* A weight is a Python float: a finite rational num/den here, or one of the
\* non-finite floats.  NoWeight is the argument weight=None.
Finite(n, d) == [tag |-> "finite", num |-> n, den |-> d]
Infinity == [tag |-> "inf", num |-> 1, den |-> 1]
MinusInfinity == [tag |-> "-inf", num |-> -1, den |-> 1]
NaN == [tag |-> "nan", num |-> 0, den |-> 1]
NoWeight == [tag |-> "None", num |-> 0, den |-> 1]

Weights ==
    {Finite(n, WeightDen) : n \in (-1)..MaxWeightNum} \cup {Infinity, MinusInfinity, NaN}

\* math.isfinite(weight)
isfinite(weight) == weight.tag = "finite"
\* weight > 0 (0 < weight), false of nan
GreaterThanZero(weight) ==
    \/ weight.tag = "finite" /\ weight.num > 0
    \/ weight.tag = "inf"
\* weight < 1, false of nan
LessThanOne(weight) ==
    \/ weight.tag = "finite" /\ weight.num < weight.den
    \/ weight.tag = "-inf"

EfraimidisSampling_is_weight_legal(weight) == isfinite(weight) /\ GreaterThanZero(weight)
\* Pareto's legality test, had it let the weight 1 in
ParetoSampling_is_weight_legal_UpToOne(weight) ==
    GreaterThanZero(weight) /\ (LessThanOne(weight) \/ weight = Finite(WeightDen, WeightDen))

ParetoSampling_is_weight_legal(weight) == GreaterThanZero(weight) /\ LessThanOne(weight)
SequentialPoissonSampling_is_weight_legal(weight) ==
    isfinite(weight) /\ GreaterThanZero(weight)

EfraimidisSampling_default_weight == Finite(1, 1)
\* Pareto's default weight, had it been the 1 of the other strategies
ParetoSampling_default_weight_One == Finite(1, 1)

ParetoSampling_default_weight == Finite(1, 2)
SequentialPoissonSampling_default_weight == Finite(1, 1)

OrderKinds == {"EfraimidisSampling", "ParetoSampling", "SequentialPoissonSampling"}

\* the dispatch of self._is_weight_legal and self._default_weight
is_weight_legal(class, weight) ==
    CASE class = "EfraimidisSampling" -> EfraimidisSampling_is_weight_legal(weight)
      [] class = "ParetoSampling" -> ParetoSampling_is_weight_legal(weight)
      [] class = "SequentialPoissonSampling" ->
            SequentialPoissonSampling_is_weight_legal(weight)

default_weight(class) ==
    CASE class = "EfraimidisSampling" -> EfraimidisSampling_default_weight
      [] class = "ParetoSampling" -> ParetoSampling_default_weight
      [] class = "SequentialPoissonSampling" -> SequentialPoissonSampling_default_weight

\* ------------------------------------------------------------------- keys
\* A key is the positive real (num/den)^(expn/expd), kept exactly.
RECURSIVE GCD(_, _)
GCD(a, b) == IF b = 0 THEN a ELSE GCD(b, a % b)

RECURSIVE Pow(_, _)
Pow(b, e) == IF e = 0 THEN 1 ELSE b * Pow(b, e - 1)

ZeroDivisionError == [num |-> 0, den |-> 0, expn |-> 1, expd |-> 1]

\* (n/d)^(en/ed), in lowest terms; a division by zero gives ZeroDivisionError
Real(n, d, en, ed) ==
    IF d = 0 \/ ed = 0
    THEN ZeroDivisionError
    ELSE LET g == GCD(n, d)
             h == GCD(en, ed)
         IN [num |-> n \div g, den |-> d \div g, expn |-> en \div h, expd |-> ed \div h]

\* a < b for two keys: float.__lt__, in exact arithmetic
KeyLess(a, b) ==
    LET ea == a.expn * b.expd
        eb == b.expn * a.expd
        g == GCD(ea, eb)
    IN Pow(a.num, ea \div g) * Pow(b.den, eb \div g)
           < Pow(b.num, eb \div g) * Pow(a.den, ea \div g)

\* random_exclusive(rng): rng.random() until the value is not 0.  raws are the
\* numerators p (of p/RandomDen) rng.random() is going to return.
RECURSIVE random_exclusive(_, _)
random_exclusive(raws, used) ==
    IF Head(raws) = 0
    THEN random_exclusive(Tail(raws), used + 1)
    ELSE [value |-> Head(raws), used |-> used + 1]

\* the raw draws one random_exclusive call can meet: zeros, then a value in (0,1)
RawDraws(zeros_left) ==
    {zeros \o <<p>> : zeros \in SeqsUpTo({0}, zeros_left), p \in 1..(RandomDen - 1)}

\* pow(random_exclusive(rng), 1 / weight)
EfraimidisSampling_key(weight, r) == Real(r, RandomDen, weight.den, weight.num)
\* ((1 - r) * weight) / (r * (1 - weight))
ParetoSampling_key(weight, r) ==
    Real((RandomDen - r) * weight.num, r * (weight.den - weight.num), 1, 1)
\* weight / random_exclusive(rng)
SequentialPoissonSampling_key(weight, r) ==
    Real(weight.num * RandomDen, weight.den * r, 1, 1)

key(class, weight, r) ==
    CASE class = "EfraimidisSampling" -> EfraimidisSampling_key(weight, r)
      [] class = "ParetoSampling" -> ParetoSampling_key(weight, r)
      [] class = "SequentialPoissonSampling" -> SequentialPoissonSampling_key(weight, r)

\* --------------------------------------------------------------- Weighted
Weighted(value, weight) == [value |-> value, weight |-> weight]
Weighted__lt__(self, other) == KeyLess(self.weight, other.weight)

\* ------------------------------------------------------ SequenceDecorator
\* A list object is known by the attribute that holds it: the engine's own list is
\* mutated in place by every method and never rebound, so its items are those of
\* the instance; any other list keeps the items it was built with.
ListOfAttribute(name) == [attribute |-> name, items |-> <<>>]
ListOfItems(items) == [attribute |-> "", items |-> items]

\* the items of a list object, for an instance self
Items(self, list) ==
    CASE list.attribute = "__reservoir" -> self.reservoir
      [] list.attribute = "__heap" -> self.heap
      [] OTHER -> list.items

\* SequenceDecorator(data, mapping_function), the id-th object of its class
SequenceDecorator(id, data, mapping_function) ==
    [id |-> id, data |-> data, mapping_function |-> mapping_function]

\* no object (an attribute the class does not have)
NoView == SequenceDecorator(0, ListOfItems(<<>>), "identity")

Apply(mapping_function, x) ==
    CASE mapping_function = "identity" -> x
      [] mapping_function = "lambda x: x.value" -> x.value

SequenceDecorator__len__(self, view) == Len(Items(self, view.data))
SequenceDecorator__getitem__(self, view, item) ==
    Apply(view.mapping_function, Items(self, view.data)[item + 1])

\* a is b
Is(a, b) == a.id = b.id

\* ------------------------------------------------------------------ heapq
\* Positions are those of the Python list (from 0); heap[pos + 1] is its item.
RECURSIVE heapq_siftdown(_, _, _, _)
heapq_siftdown(h, startpos, pos, newitem) ==
    IF pos > startpos /\ Weighted__lt__(newitem, h[((pos - 1) \div 2) + 1])
    THEN heapq_siftdown([h EXCEPT ![pos + 1] = h[((pos - 1) \div 2) + 1]],
                        startpos, (pos - 1) \div 2, newitem)
    ELSE [h EXCEPT ![pos + 1] = newitem]

RECURSIVE heapq_siftup(_, _, _, _)
heapq_siftup(h, startpos, pos, newitem) ==
    LET endpos == Len(h)
        childpos == 2 * pos + 1
        rightpos == childpos + 1
        smaller == IF rightpos < endpos /\ ~Weighted__lt__(h[childpos + 1], h[rightpos + 1])
                   THEN rightpos
                   ELSE childpos
    IN IF childpos < endpos
       THEN heapq_siftup([h EXCEPT ![pos + 1] = h[smaller + 1]], startpos, smaller, newitem)
       ELSE heapq_siftdown([h EXCEPT ![pos + 1] = newitem], startpos, pos, newitem)

heappush(h, item) == heapq_siftdown(Append(h, item), 0, Len(h), item)
heapreplace(h, item) == heapq_siftup([h EXCEPT ![1] = item], 0, 0, item)

\* ---------------------------------------------------------- OrderSampling
\* the Weighted item put creates for a legal weight
NewItem(self, element, weight, raws) ==
    Weighted(element, key(self.kind, weight, random_exclusive(raws, 0).value))

\* put, from the count of the element on (the weight has passed the checks)
\* ... had it let a key equal to the minimum in
Admit_AdmitsTies(self, new_item, used) ==
    LET counted == [self EXCEPT !.stream_size = @ + 1, !.rng = @ + used]
    IN IF Len(counted.heap) < counted.sample_size
       THEN Outcome([counted EXCEPT !.heap = heappush(@, new_item)], "True", <<>>)
       ELSE IF ~Weighted__lt__(new_item, counted.heap[1])
       THEN Outcome([counted EXCEPT !.heap = heapreplace(@, new_item)], "True", <<>>)
       ELSE Outcome(counted, "False", <<>>)

\* ... had it compared the new key with the minimum the wrong way round
Admit_KeepsSmallest(self, new_item, used) ==
    LET counted == [self EXCEPT !.stream_size = @ + 1, !.rng = @ + used]
    IN IF Len(counted.heap) < counted.sample_size
       THEN Outcome([counted EXCEPT !.heap = heappush(@, new_item)], "True", <<>>)
       ELSE IF Weighted__lt__(new_item, counted.heap[1])
       THEN Outcome([counted EXCEPT !.heap = heapreplace(@, new_item)], "True", <<>>)
       ELSE Outcome(counted, "False", <<>>)

Admit(self, new_item, used) ==
    LET counted == [self EXCEPT !.stream_size = @ + 1, !.rng = @ + used]
    IN IF Len(counted.heap) < counted.sample_size
       THEN Outcome([counted EXCEPT !.heap = heappush(@, new_item)], "True", <<>>)
       ELSE IF Weighted__lt__(counted.heap[1], new_item)
       THEN Outcome([counted EXCEPT !.heap = heapreplace(@, new_item)], "True", <<>>)
       ELSE Outcome(counted, "False", <<>>)

\* put, had it counted the element before it checked the weight
OrderSampling_put_CountsFirst(self, element, weight, raws) ==
    IF element = None
    THEN Outcome(self, "ValueError", raws)
    ELSE LET given == IF weight = NoWeight THEN default_weight(self.kind) ELSE weight
         IN IF ~is_weight_legal(self.kind, given)
            THEN Outcome([self EXCEPT !.stream_size = @ + 1], "BadWeightError", raws)
            ELSE Admit(self, NewItem(self, element, given, raws),
                       random_exclusive(raws, 0).used)

OrderSampling_put(self, element, weight, raws) ==
    IF element = None
    THEN Outcome(self, "ValueError", raws)
    ELSE LET given == IF weight = NoWeight THEN default_weight(self.kind) ELSE weight
         IN IF ~is_weight_legal(self.kind, given)
            THEN Outcome(self, "BadWeightError", raws)
            ELSE Admit(self, NewItem(self, element, given, raws),
                       random_exclusive(raws, 0).used)

\* ------------------------------------- AbstractWeightedReservoirSampling
\* The weights argument of put_iterable: None, or an iterable of weights.
NoWeights == [none |-> TRUE, items |-> <<>>]
WeightsOf(items) == [none |-> FALSE, items |-> items]

\* zip, had it left out the last pair
zip_LeavesLastOut(elements, weights) ==
    [i \in 1..(Min(Len(elements), Len(weights)) - 1) |-> <<elements[i], weights[i]>>]

\* zip(elements, weights): the pairs up to the end of the shorter iterable
zip(elements, weights) ==
    [i \in 1..Min(Len(elements), Len(weights)) |-> <<elements[i], weights[i]>>]

\* the loops of put_iterable, over the (element, weight) pairs they go through;
\* rawss[i] are the raw draws of the i-th put
RECURSIVE AbstractWeightedReservoirSampling_loop(_, _, _, _)
AbstractWeightedReservoirSampling_loop(self, pairs, changed, rawss) ==
    IF pairs = <<>>
    THEN Outcome(self, Bool(changed), rawss)
    ELSE LET r == OrderSampling_put(self, Head(pairs)[1], Head(pairs)[2], Head(rawss))
         IN IF Raised(r.ret)
            THEN Outcome(r.self, r.ret, rawss)
            ELSE AbstractWeightedReservoirSampling_loop(r.self, Tail(pairs),
                                                        changed \/ r.ret = "True",
                                                        Tail(rawss))

AbstractWeightedReservoirSampling_put_iterable(self, elements, weights, rawss) ==
    IF weights.none
    THEN AbstractWeightedReservoirSampling_loop(
             self, [i \in 1..Len(elements) |-> <<elements[i], NoWeight>>], FALSE, rawss)
    ELSE AbstractWeightedReservoirSampling_loop(
             self, zip(elements, weights.items), FALSE, rawss)

\* -------------------------------------------- the unweighted strategies
Strategies == {"WatermanSampling", "VitterXSampling", "VitterZSampling", "LiLSampling"}

\* the methods ReservoirSampling declares with @abstractmethod
ReservoirSampling_abstractmethods ==
    {"put", "put_iterable", "put_sequence", "sample_size", "stream_size", "sample"}

\* the methods the body of each class defines, and the base of each class
Defines(class) ==
    CASE class = "ReservoirSampling" -> {}
      [] class = "AbstractReservoirSampling" ->
            {"__init__", "__put", "put", "put_iterable", "put_sequence", "sample_size",
             "stream_size", "sample", "_reservoir"}
      [] class = "WatermanSampling" ->
            {"__init__", "put", "put_iterable", "sample_size", "stream_size", "sample",
             "_reservoir"}
      [] class \in {"VitterXSampling", "VitterZSampling", "LiLSampling"} -> {"__init__"}

Base(class) ==
    CASE class \in {"AbstractReservoirSampling", "WatermanSampling"} -> "ReservoirSampling"
      [] class \in {"VitterXSampling", "VitterZSampling", "LiLSampling"} ->
            "AbstractReservoirSampling"

\* class.__abstractmethods__: the abstract methods no class of the chain overrides
RECURSIVE Overrides(_)
Overrides(class) ==
    IF class = "ReservoirSampling" THEN {} ELSE Defines(class) \cup Overrides(Base(class))

abstractmethods(class) == ReservoirSampling_abstractmethods \ Overrides(class)

\* no instance yet: the class and the sample_size of the call to come
NoInstance(class, size) ==
    [kind |-> class, sample_size |-> size, stream_size |-> 0, reservoir |-> <<>>,
     skip |-> 0, skip_function |-> 0, rng |-> 0, heap |-> <<>>, reservoir_view |-> NoView]

\* WatermanSampling.__init__
WatermanSampling__init__(self) ==
    IF self.sample_size < 1
    THEN Outcome(self, "ValueError", <<>>)
    ELSE Outcome([self EXCEPT !.reservoir_view =
                      SequenceDecorator(1, ListOfAttribute("__reservoir"), "identity")],
                 "None", <<>>)

\* AbstractReservoirSampling.__init__, called by the __init__ of the three strategies
\* with their skip function; first is the first value of the generator
AbstractReservoirSampling__init__(self, first) ==
    IF self.sample_size < 1
    THEN Outcome(self, "ValueError", <<>>)
    ELSE Outcome([self EXCEPT !.reservoir_view =
                      SequenceDecorator(1, ListOfAttribute("__reservoir"), "identity"),
                                !.skip = first, !.skip_function = 1],
                 "None", <<>>)

\* class(sample_size): object creation refuses a class with abstract methods left,
\* before __init__ runs
new(class, size, first) ==
    IF abstractmethods(class) # {}
    THEN Outcome(NoInstance(class, size), "TypeError", <<>>)
    ELSE IF class = "WatermanSampling"
    THEN WatermanSampling__init__(NoInstance(class, size))
    ELSE AbstractReservoirSampling__init__(NoInstance(class, size), first)

\* WatermanSampling.put, had it overwritten the first slot whatever the draw
WatermanSampling_put_AtFront(self, element, draws) ==
    IF element = None
    THEN Outcome(self, "ValueError", draws)
    ELSE LET counted == [self EXCEPT !.stream_size = @ + 1]
         IN IF Len(counted.reservoir) < counted.sample_size
            THEN Outcome([counted EXCEPT !.reservoir = Append(@, element)], "True", draws)
            ELSE LET r == Head(draws)
                     drawn == [counted EXCEPT !.rng = @ + 1]
                 IN IF r < drawn.sample_size
                    THEN Outcome([drawn EXCEPT !.reservoir[1] = element], "True",
                                 Tail(draws))
                    ELSE Outcome(drawn, "False", Tail(draws))

\* WatermanSampling.put; draws are the values rng.randrange(0, stream_size) is going
\* to return, each below the stream size of its put
WatermanSampling_put(self, element, draws) ==
    IF element = None
    THEN Outcome(self, "ValueError", draws)
    ELSE LET counted == [self EXCEPT !.stream_size = @ + 1]
         IN IF Len(counted.reservoir) < counted.sample_size
            THEN Outcome([counted EXCEPT !.reservoir = Append(@, element)], "True", draws)
            ELSE LET r == Head(draws)
                     drawn == [counted EXCEPT !.rng = @ + 1]
                 IN IF r < drawn.sample_size
                    THEN Outcome([drawn EXCEPT !.reservoir[r + 1] = element], "True",
                                 Tail(draws))
                    ELSE Outcome(drawn, "False", Tail(draws))

RECURSIVE WatermanSampling_loop(_, _, _, _)
WatermanSampling_loop(self, iterable, changed, draws) ==
    IF iterable = <<>>
    THEN Outcome(self, Bool(changed), draws)
    ELSE LET r == WatermanSampling_put(self, Head(iterable), draws)
         IN IF Raised(r.ret)
            THEN r
            ELSE WatermanSampling_loop(r.self, Tail(iterable), changed \/ r.ret = "True",
                                       r.tape)

WatermanSampling_put_iterable(self, iterable, draws) ==
    WatermanSampling_loop(self, iterable, FALSE, draws)

\* waterman_sampling(collection, sample_size): the instance it made and "list" when
\* it returns the reservoir of that instance, or the exception it raises
waterman_sampling(collection, size, draws) ==
    LET waterman_sampler == new("WatermanSampling", size, 0)
    IN IF Raised(waterman_sampler.ret)
       THEN waterman_sampler
       ELSE LET r == WatermanSampling_put_iterable(waterman_sampler.self, collection, draws)
            IN IF Raised(r.ret) THEN r ELSE Outcome(r.self, "list", r.tape)

\* the methods of an instance of a strategy
Strategy_put(self, element, tape, draws) ==
    IF self.kind = "WatermanSampling"
    THEN WatermanSampling_put(self, element, draws)
    ELSE AbstractReservoirSampling_put(self, element, tape)

Strategy_put_iterable(self, iterable, tape, draws) ==
    IF self.kind = "WatermanSampling"
    THEN WatermanSampling_put_iterable(self, iterable, draws)
    ELSE AbstractReservoirSampling_put_iterable(self, iterable, tape)

\* WatermanSampling has ReservoirSampling.put_sequence, which raises
Strategy_put_sequence(self, sequence, tape) ==
    IF self.kind = "WatermanSampling"
    THEN Outcome(self, "NotImplementedError", tape)
    ELSE AbstractReservoirSampling_put_sequence(self, sequence, tape)

\* -------------------------------------------------------------- accessors
AbstractReservoirSampling_sample_size(self) == Outcome(self, self.sample_size, <<>>)
AbstractReservoirSampling_stream_size(self) == Outcome(self, self.stream_size, <<>>)
AbstractReservoirSampling_sample(self) == Outcome(self, self.reservoir_view, <<>>)

OrderSampling_sample_size(self) == Outcome(self, self.sample_size, <<>>)
OrderSampling_stream_size(self) == Outcome(self, self.stream_size, <<>>)

\* sample, had it handed out a view of a copy of the queue
OrderSampling_sample_Copies(self, id) ==
    Outcome(self, SequenceDecorator(id, ListOfItems(self.heap), "lambda x: x.value"), <<>>)

\* sample, had it emptied the queue it hands out
OrderSampling_sample_Clears(self, id) ==
    Outcome([self EXCEPT !.heap = <<>>],
            SequenceDecorator(id, ListOfAttribute("__heap"), "lambda x: x.value"), <<>>)

\* SequenceDecorator(self.__heap, lambda x: x.value): a new object, the id-th
OrderSampling_sample(self, id) ==
    Outcome(self, SequenceDecorator(id, ListOfAttribute("__heap"), "lambda x: x.value"),
            <<>>)

\* the calls on an instance of either engine; made is the number of
\* SequenceDecorator objects constructed before the call
sample_size_(self) ==
    IF self.kind \in OrderKinds
    THEN OrderSampling_sample_size(self)
    ELSE AbstractReservoirSampling_sample_size(self)

stream_size_(self) ==
    IF self.kind \in OrderKinds
    THEN OrderSampling_stream_size(self)
    ELSE AbstractReservoirSampling_stream_size(self)

sample(self, made) ==
    IF self.kind \in OrderKinds
    THEN OrderSampling_sample(self, made + 1)
    ELSE AbstractReservoirSampling_sample(self)

\* list(view): the items read through __len__ and __getitem__
ListOfView(self, view) ==
    [i \in 1..SequenceDecorator__len__(self, view) |->
        SequenceDecorator__getitem__(self, view, i - 1)]

\* -------------------------------------------------------------- rationals
\* The floats of whole sampling, kept exactly as fractions in lowest terms.
\* The infinities and nan are the fractions 1/0, -1/0 and 0/0: the operations
\* below give them what float arithmetic gives (a comparison with nan is false).
\* Overflow and rounding of finite values are not modelled.
inf == [num |-> 1, den |-> 0, expn |-> 1, expd |-> 1]
minus_inf == [num |-> 0 - 1, den |-> 0, expn |-> 1, expd |-> 1]
nan == [num |-> 0, den |-> 0, expn |-> 1, expd |-> 1]
Rational(n, d) ==
    IF d = 0
    THEN (IF n > 0 THEN inf ELSE IF n < 0 THEN minus_inf ELSE nan)
    ELSE Real(n, d, 1, 1)
Zero == Rational(0, 1)
One == Rational(1, 1)
Plus(a, b) ==
    IF a.den = 0 /\ b.den = 0
    THEN (IF a = b THEN a ELSE nan)
    ELSE Rational(a.num * b.den + b.num * a.den, a.den * b.den)
Negative(a) == Rational(0 - a.num, a.den)
Less(a, b) == KeyLess(a, b)
\* a <= b
LessOrEqual(a, b) == a # nan /\ b # nan /\ ~Less(b, a)
\* min(a, b) of Python: the first argument unless the second is smaller
min(a, b) == IF Less(b, a) THEN b ELSE a

RECURSIVE sum(_)
sum(values) == IF values = <<>> THEN Zero ELSE Plus(Head(values), sum(Tail(values)))

\* check_feasibility(weights, sample_size), from the i-th weight on
RECURSIVE check_feasibility_loop(_, _, _, _)
check_feasibility_loop(weights, size, weight_sum, i) ==
    IF i > Len(weights) THEN TRUE
    ELSE IF Less(One, Rational(size * weights[i].num * weight_sum.den,
                               weights[i].den * weight_sum.num))
         THEN FALSE
         ELSE check_feasibility_loop(weights, size, weight_sum, i + 1)

check_feasibility(weights, size) == check_feasibility_loop(weights, size, sum(weights), 1)

\* --------------------------------------------------------- skip functions
\* The first next() of the skip generators of Li L and Vitter Z, which the
\* constructor of the engine calls.  raws are the numerators p (of p/RandomDen)
\* rng.random() is going to return.
Product(a, b) == Rational(a.num * b.num, a.den * b.den)
\* a / b of two floats that are not negative
Quotient(a, b) ==
    IF b.num = 0 THEN ZeroDivisionError ELSE Rational(a.num * b.den, a.den * b.num)
Integer(n) == Rational(n, 1)
\* int(x), x >= 0
int(x) == x.num \div x.den

\* what next() gives: a skip yielded, or the exception that came out of it;
\* used is the number of raw draws taken
Skipped(ret, value, used) == [ret |-> ret, value |-> value, used |-> used]

\* enough raw draws are left for a call of random_exclusive
Exclusive(raws) == \E i \in DOMAIN raws : raws[i] # 0

\* int(math.log(random1) / math.log(1 - w)): math.log raises ValueError off
\* (0, inf) and the division ZeroDivisionError when log(1 - w) is 0; the value
\* of the skip, which is not rational, is left out
li_l_skip(random1, w) ==
    IF random1 <= 0 THEN "ValueError"
    ELSE IF ~KeyLess(w, One) THEN "ValueError"
    ELSE IF w.num = 0 THEN "ZeroDivisionError"
    ELSE "int"

\* _li_l_skip_function(k, rng), to its first yield: w, random1 and random2
\* through random_exclusive
li_l_skip_function(k, raws) ==
    LET first == random_exclusive(raws, 0)
        w == Real(first.value, RandomDen, 1, k)
        random1 == random_exclusive(SubSeq(raws, first.used + 1, Len(raws)), first.used)
        random2 == random_exclusive(SubSeq(raws, random1.used + 1, Len(raws)), random1.used)
        skips == li_l_skip(random1.value, w)
    IN IF skips = "int" THEN Skipped("yield", skips, random2.used)
       ELSE Skipped(skips, skips, random2.used)

\* rng.random() ** (-1.0 / sample_size), had it drawn through random_exclusive
vitter_z_w_Exclusive(k, raws) ==
    LET drawn == random_exclusive(raws, 0)
    IN [value |-> Real(RandomDen, drawn.value, 1, k), used |-> drawn.used]

\* rng.random() ** (-1.0 / sample_size): 0.0 cannot be raised to a negative
\* power
vitter_z_w(k, raws) ==
    [value |-> IF Head(raws) = 0 THEN ZeroDivisionError
               ELSE Real(RandomDen, Head(raws), 1, k),
     used |-> 1]

\* for numer in range(numer, numer_lim - 1, -1): y = (y * numer) / denom; ...
RECURSIVE vitter_z_y(_, _, _, _)
vitter_z_y(y, numer, numer_lim, denom) ==
    IF numer < numer_lim THEN y
    ELSE vitter_z_y(Quotient(Product(y, Integer(numer)), Integer(denom)),
                    numer - 1, numer_lim, denom - 1)

\* the inner while of _vitter_z_skip_function with sample_size = 1, where
\* every value is rational (x ** 1.0 is x); it runs until it yields, raises or
\* has no raw draws left ("running")
RECURSIVE vitter_z_while(_, _, _, _)
vitter_z_while(n, w, raws, used) ==
    IF ~Exclusive(raws) THEN Skipped("running", 0, used)
    ELSE
    LET term == n - 1 + 1
        drawn == random_exclusive(raws, 0)
        u == Rational(drawn.value, RandomDen)
        rest == SubSeq(raws, drawn.used + 1, Len(raws))
        x == Product(Integer(n), Plus(w, Negative(One)))
        g == int(x)
        lhs == Quotient(Product(Product(u, Product(Quotient(Integer(n + 1), Integer(term)),
                                                   Quotient(Integer(n + 1), Integer(term)))),
                                Integer(term + g)),
                        Plus(Integer(n), x))
        rhs == Quotient(Product(Quotient(Plus(Integer(n), x), Integer(term + g)),
                                Integer(term)),
                        Integer(n))
        y == Quotient(Product(Quotient(Product(u, Integer(n + 1)), Integer(term)),
                              Integer(n + g + 1)),
                      Plus(Integer(n), x))
        denom == IF 1 < g THEN n ELSE n - 1 + g
        numer_lim == IF 1 < g THEN term + g ELSE n + 1
        product == vitter_z_y(y, n + g, numer_lim, denom)
    IN IF Less(lhs, rhs)
       THEN IF Quotient(rhs, lhs) = ZeroDivisionError
            THEN Skipped("ZeroDivisionError", 0, used + drawn.used)
            ELSE Skipped("yield", g, used + drawn.used)
       ELSE IF rest = <<>> THEN Skipped("running", 0, used + drawn.used)
       ELSE LET again == vitter_z_w(1, rest)
            IN IF again.value = ZeroDivisionError
               THEN Skipped("ZeroDivisionError", 0, used + drawn.used + again.used)
               ELSE IF ~Less(Quotient(Plus(Integer(n), x), Integer(n)), product)
               THEN Skipped("yield", g, used + drawn.used + again.used)
               ELSE vitter_z_while(n, again.value, Tail(rest),
                                   used + drawn.used + again.used)

\* _vitter_z_skip_function(1, rng), to its first yield
vitter_z_skip_function(raws) ==
    LET first == vitter_z_w(1, raws)
    IN IF first.value = ZeroDivisionError
       THEN Skipped("ZeroDivisionError", 0, first.used)
       ELSE vitter_z_while(1, first.value, Tail(raws), first.used)

\* ------------------------------------------------------------------ swor
\* The generator object of swor(n, k): where it stands ("created" before the
\* first next, "suspended" at the yield, "finished" after it returned or
\* raised), its locals n, k, i, swaps and next_index, and the history of what
\* it has yielded.  swaps is the dict as a function on its keys.
SworGenerator(at, n, k, i, swaps, next_index, produced) ==
    [at |-> at, n |-> n, k |-> k, i |-> i, swaps |-> swaps, next_index |-> next_index,
     produced |-> produced]
NoGenerator == SworGenerator("none", 0, 0, 0, <<>>, 0, <<>>)

\* swor(n, k): a generator function runs nothing when it is called
swor(n, k) == SworGenerator("created", n, k, 0, <<>>, 0, <<>>)

\* swaps.get(index, index)
dict_get(swaps, index) == IF index \in DOMAIN swaps THEN swaps[index] ELSE index

\* swaps[index] = value
dict_set(swaps, index, value) ==
    [x \in DOMAIN swaps \cup {index} |-> IF x = index THEN value ELSE swaps[x]]

\* the same, which leaves swaps as it is
swor_swap_Nothing(g) == [g EXCEPT !.i = g.i + 1]

\* swaps[next_index] = swaps.get(n - i - 1, n - i - 1), and the end of the turn
\* of the for loop
swor_swap(g) ==
    [g EXCEPT !.swaps = dict_set(g.swaps, g.next_index,
                                 dict_get(g.swaps, g.n - g.i - 1)),
              !.i = g.i + 1]

\* the for loop from its next turn on: rng.randrange(0, n - i) returns draw.
\* ret is "yield" with the value yielded, or the exception that ends the call.
swor_turn(g, draw) ==
    IF g.i < g.k
    THEN LET value == dict_get(g.swaps, draw)
         IN [generator |-> [g EXCEPT !.at = "suspended", !.next_index = draw,
                                     !.produced = Append(g.produced, value)],
             ret |-> "yield", value |-> value]
    ELSE [generator |-> [g EXCEPT !.at = "finished"], ret |-> "StopIteration", value |-> 0 - 1]

\* next(generator)
swor_next(g, draw) ==
    IF g.at = "created"
    THEN IF ~(g.n >= g.k /\ g.k >= 0)
         THEN [generator |-> [g EXCEPT !.at = "finished"], ret |-> "ValueError", value |-> 0 - 1]
         ELSE swor_turn(g, draw)
    ELSE IF g.at = "suspended"
    THEN swor_turn(swor_swap(g), draw)
    ELSE [generator |-> g, ret |-> "StopIteration", value |-> 0 - 1]

\* ------------------------------------------------------------ AliasMethod
\* Indices are those of the Python lists (from 0); u[i + 1] is self.u[i].
AliasMethod(n, u, k) == [n |-> n, u |-> u, k |-> k]
NoAlias == AliasMethod(0, <<>>, <<>>)

\* the indices i, in increasing order from position 1 on, whose n * p[i] is on
\* the given side of 1
RECURSIVE AliasMethod_side(_, _, _)
AliasMethod_side(scaled, i, larger) ==
    IF i > Len(scaled) THEN <<>>
    ELSE LET here == IF larger THEN Less(One, scaled[i]) ELSE Less(scaled[i], One)
         IN (IF here THEN <<i - 1>> ELSE <<>>) \o AliasMethod_side(scaled, i + 1, larger)

RECURSIVE AliasMethod_finalize(_, _)
\* the same without the finalizing loops
AliasMethod_finalize_Nothing(u, indices) == u
AliasMethod_finalize(u, indices) ==
    IF indices = <<>> THEN u
    ELSE AliasMethod_finalize([u EXCEPT ![indices[Len(indices)] + 1] = One],
                              SubSeq(indices, 1, Len(indices) - 1))

\* while small and large: ...; then the two finalizing loops
RECURSIVE AliasMethod_process(_, _, _, _)
AliasMethod_process(u, k, small, large) ==
    IF small # <<>> /\ large # <<>>
    THEN LET l == large[Len(large)]
             s == small[Len(small)]
             large_ == SubSeq(large, 1, Len(large) - 1)
             small_ == SubSeq(small, 1, Len(small) - 1)
             ul == Plus(Plus(u[l + 1], u[s + 1]), Negative(One))
         IN IF Less(ul, One)
            THEN AliasMethod_process([u EXCEPT ![l + 1] = ul], [k EXCEPT ![s + 1] = l],
                                     Append(small_, l), large_)
            ELSE AliasMethod_process([u EXCEPT ![l + 1] = ul], [k EXCEPT ![s + 1] = l],
                                     small_, Append(large_, l))
    ELSE AliasMethod(Len(u), AliasMethod_finalize(AliasMethod_finalize(u, small), large), k)

AliasMethod__init__(probabilities) ==
    IF Len(probabilities) < 1
    THEN [self |-> NoAlias, ret |-> "ValueError"]
    ELSE LET n == Len(probabilities)
             scaled == [i \in 1..n |->
                           Rational(n * probabilities[i].num, probabilities[i].den)]
             k == [i \in 1..n |-> i - 1]
         IN [self |-> AliasMethod_process(scaled, k, AliasMethod_side(scaled, 1, FALSE),
                                          AliasMethod_side(scaled, 1, TRUE)),
             ret |-> "None"]

\* the same, returning i when y <= self.u[i]
AliasMethod_sample_at_OrEqual(self, x, den) ==
    LET i == (self.n * x) \div den
        y == Rational(self.n * x - i * den, den)
    IN IF LessOrEqual(y, self.u[i + 1]) THEN i ELSE self.k[i + 1]

\* sample(rng), rng.random() returning x/den
AliasMethod_sample_at(self, x, den) ==
    LET i == (self.n * x) \div den
        y == Rational(self.n * x - i * den, den)
    IN IF Less(y, self.u[i + 1]) THEN i ELSE self.k[i + 1]

\* sample(rng), rng.random() returning x/RandomDen
AliasMethod_sample(self, x) == AliasMethod_sample_at(self, x, RandomDen)

\* ---------------------------------------------------------- JessenBuilder
\* _Weighted(value, weight) is the record Weighted(value, weight); both classes
\* compare by weight alone.
JessenBuilder(h, weight_sum) == [heap |-> h, weight_sum |-> weight_sum]
JessenBuilder__init__ == JessenBuilder(<<>>, Zero)

JessenBuilder_add_AcceptsZero(self, item, weight) ==
    IF Less(weight, Zero)
    THEN [self |-> self, ret |-> "BadWeightError"]
    ELSE [self |-> JessenBuilder(Append(self.heap, Weighted(item, weight)),
                                 Plus(self.weight_sum, weight)),
          ret |-> "self"]
JessenBuilder_add(self, item, weight) ==
    IF LessOrEqual(weight, Zero)
    THEN [self |-> self, ret |-> "BadWeightError"]
    ELSE [self |-> JessenBuilder(Append(self.heap, Weighted(item, weight)),
                                 Plus(self.weight_sum, weight)),
          ret |-> "self"]

\* for item, weight in pairs: self.add(item, weight)
RECURSIVE JessenBuilder_add_loop(_, _)
JessenBuilder_add_loop(self, pairs) ==
    IF pairs = <<>> THEN [self |-> self, ret |-> "self"]
    ELSE LET r == JessenBuilder_add(self, Head(pairs)[1], Head(pairs)[2])
         IN IF Raised(r.ret) THEN r ELSE JessenBuilder_add_loop(r.self, Tail(pairs))

\* enumerate(weights)
enumerate(weights) == [i \in 1..Len(weights) |-> <<i - 1, weights[i]>>]
\* range(n), as a list
range(n) == [i \in 1..n |-> i - 1]

JessenBuilder_add_weights(self, weights) ==
    JessenBuilder_add_loop(self, enumerate(weights))

JessenBuilder_add_range(self, population, weights) ==
    JessenBuilder_add_loop(self, zip(population, weights))

\* add_mapping(population, weights): population is an int (is_int) or a list of
\* items, and weights a function of the item
JessenBuilder_add_mapping(self, is_int, population, weights) ==
    LET items == IF is_int THEN range(population) ELSE population
    IN JessenBuilder_add_loop(self, [i \in 1..Len(items) |-> <<items[i], weights[items[i]]>>])

\* add_dictionary(population): population.items() in the order of insertion
JessenBuilder_add_dictionary(self, population) ==
    JessenBuilder_add_loop(self, population)

JessenBuilder_reset_Nothing(self) == self
JessenBuilder_reset_KeepsSum(self) == JessenBuilder(<<>>, self.weight_sum)
JessenBuilder_reset(self) == JessenBuilder(<<>>, Zero)

\* weighted.weight * sample_size / self.__weight_sum
normalized_weight_OfOneDraw(weight, size, weight_sum) ==
    Rational(weight.num * weight_sum.den, weight.den * weight_sum.num)
normalized_weight(weight, size, weight_sum) ==
    Rational(weight.num * size * weight_sum.den, weight.den * weight_sum.num)

\* the loop that normalizes and negates the weights, from the i-th entry on;
\* it stops at the first entry whose normalized weight exceeds 1
RECURSIVE JessenBuilder_normalize(_, _, _, _)
JessenBuilder_normalize_RejectsOne(h, i, size, weight_sum) ==
    IF i > Len(h) THEN [heap |-> h, ret |-> "None"]
    ELSE LET normalized == normalized_weight(h[i].weight, size, weight_sum)
         IN IF ~Less(normalized, One)
            THEN [heap |-> h, ret |-> "InfeasibleCaseError"]
            ELSE JessenBuilder_normalize([h EXCEPT ![i].weight = Negative(normalized)],
                                         i + 1, size, weight_sum)
JessenBuilder_normalize_ChecksFirst(h, i, size, weight_sum) ==
    IF \E j \in i..Len(h) : Less(One, normalized_weight(h[j].weight, size, weight_sum))
    THEN [heap |-> h, ret |-> "InfeasibleCaseError"]
    ELSE IF i > Len(h) THEN [heap |-> h, ret |-> "None"]
    ELSE JessenBuilder_normalize(
             [h EXCEPT ![i].weight =
                  Negative(normalized_weight(h[i].weight, size, weight_sum))],
             i + 1, size, weight_sum)
JessenBuilder_normalize(h, i, size, weight_sum) ==
    IF i > Len(h) THEN [heap |-> h, ret |-> "None"]
    ELSE LET normalized == normalized_weight(h[i].weight, size, weight_sum)
         IN IF Less(One, normalized)
            THEN [heap |-> h, ret |-> "InfeasibleCaseError"]
            ELSE JessenBuilder_normalize([h EXCEPT ![i].weight = Negative(normalized)],
                                         i + 1, size, weight_sum)

\* heapq.heapify(x): _siftup(x, i) for i in reversed(range(len(x) // 2))
RECURSIVE heapify_from(_, _)
heapify_from(x, i) ==
    IF i < 0 THEN x ELSE heapify_from(heapq_siftup(x, i, i, x[i + 1]), i - 1)
heapify(x) == heapify_from(x, (Len(x) \div 2) - 1)

\* heapq.heappop(heap): the item returned and the heap left
heappop(h) ==
    LET lastelt == h[Len(h)]
        rest == SubSeq(h, 1, Len(h) - 1)
    IN IF rest # <<>>
       THEN [item |-> rest[1], heap |-> heapreplace(rest, lastelt)]
       ELSE [item |-> lastelt, heap |-> rest]

\* for _ in range(sample_size): popped = heapq.heappop(self.__heap); ...
RECURSIVE JessenBuilder_pop(_, _, _)
JessenBuilder_pop(h, new_weighted, n) ==
    IF n = 0 THEN [heap |-> h, new_weighted |-> new_weighted]
    ELSE LET popped == heappop(h)
         IN JessenBuilder_pop(popped.heap, Append(new_weighted, popped.item), n - 1)

\* new_sample: the values of the popped entries
new_sample_ButTheLast(new_weighted) ==
    [i \in 1..(Len(new_weighted) - 1) |-> new_weighted[i].value]
new_sample(new_weighted) == [i \in 1..Len(new_weighted) |-> new_weighted[i].value]

\* for new_tuple in new_weighted: push back what is left of it, if anything
RECURSIVE JessenBuilder_push(_, _, _)
\* ... had it left the first of them out
JessenBuilder_push_ButTheFirst(h, new_weighted, by) ==
    IF new_weighted = <<>> THEN h ELSE JessenBuilder_push(h, Tail(new_weighted), by)
JessenBuilder_push(h, new_weighted, by) ==
    IF new_weighted = <<>> THEN h
    ELSE LET new_tuple == Head(new_weighted)
             left == Plus(new_tuple.weight, by)
         IN IF Less(left, Zero)
            THEN JessenBuilder_push(heappush(h, [new_tuple EXCEPT !.weight = left]),
                                    Tail(new_weighted), by)
            ELSE JessenBuilder_push(h, Tail(new_weighted), by)

\* reduce_by, for the entries popped and the heap they left
reduce_by_OfThePopped(h, new_weighted, overall_balance) ==
    Negative(new_weighted[Len(new_weighted)].weight)
\* ... had it taken the entry popped first
reduce_by_OfTheFirstPopped(h, new_weighted, overall_balance) ==
    IF h # <<>>
    THEN min(Negative(new_weighted[1].weight), Plus(overall_balance, h[1].weight))
    ELSE Negative(new_weighted[1].weight)
reduce_by(h, new_weighted, overall_balance) ==
    IF h # <<>>
    THEN min(Negative(new_weighted[Len(new_weighted)].weight),
             Plus(overall_balance, h[1].weight))
    ELSE Negative(new_weighted[Len(new_weighted)].weight)

Tableau(sample_space, sample_probabilities) ==
    [sample_space |-> sample_space, sample_probabilities |-> sample_probabilities]

\* while len(self.__heap) >= sample_size: ...
RECURSIVE JessenBuilder_loop(_, _, _, _)
JessenBuilder_loop(h, size, tableau, overall_balance) ==
    IF Len(h) < size THEN tableau
    ELSE LET popped == JessenBuilder_pop(h, <<>>, size)
             by == reduce_by(popped.heap, popped.new_weighted, overall_balance)
         IN IF by = Zero THEN tableau
            ELSE JessenBuilder_loop(
                     JessenBuilder_push(popped.heap, popped.new_weighted, by),
                     size,
                     Tableau(Append(tableau.sample_space, new_sample(popped.new_weighted)),
                             Append(tableau.sample_probabilities, by)),
                     Plus(overall_balance, Negative(by)))

\* One turn of the while loop, from its test on: the heap and the balance it
\* starts with, the entries it pops and the heap they leave, reduce_by, whether
\* it breaks, and the heap and the balance it ends with.
JessenBuilder_iteration(h, size, overall_balance) ==
    LET popped == JessenBuilder_pop(h, <<>>, size)
        by == reduce_by(popped.heap, popped.new_weighted, overall_balance)
    IN [heap |-> h, overall_balance |-> overall_balance,
        new_weighted |-> popped.new_weighted, left |-> popped.heap,
        reduce_by |-> by, breaks |-> by = Zero,
        pushed |-> IF by = Zero THEN popped.heap
                   ELSE JessenBuilder_push(popped.heap, popped.new_weighted, by),
        balance_left |-> IF by = Zero THEN overall_balance
                         ELSE Plus(overall_balance, Negative(by))]

\* the turns of the while loop, in order, and the heap and the balance it exits
\* with
RECURSIVE JessenBuilder_iterations(_, _, _, _)
JessenBuilder_iterations(h, size, overall_balance, turns) ==
    IF Len(h) < size
    THEN [turns |-> turns, heap |-> h, overall_balance |-> overall_balance]
    ELSE LET turn == JessenBuilder_iteration(h, size, overall_balance)
         IN IF turn.breaks
            THEN [turns |-> Append(turns, turn), heap |-> turn.pushed,
                  overall_balance |-> turn.balance_left]
            ELSE JessenBuilder_iterations(turn.pushed, size, turn.balance_left,
                                          Append(turns, turn))

\* --------------------------------------------------------- JessenSampling
JessenSampling(alias, sample_space, sample_probabilities) ==
    [alias |-> alias, sample_space |-> sample_space,
     sample_probabilities |-> sample_probabilities]
NoSampling == JessenSampling(NoAlias, <<>>, <<>>)

JessenSampling__init__(sample_space, sample_probabilities) ==
    LET alias == AliasMethod__init__(sample_probabilities)
    IN [self |-> IF Raised(alias.ret) THEN NoSampling
                 ELSE JessenSampling(alias.self, sample_space, sample_probabilities),
        ret |-> alias.ret]

\* JessenSample(sample): a read-only view of the list
JessenSample(items) == [data |-> ListOfItems(items), mapping_function |-> "identity"]

\* list(self.sample_space())
JessenSampling_sample_space(self) ==
    [i \in 1..Min(Len(self.sample_space), Len(self.sample_probabilities)) |->
        <<JessenSample(self.sample_space[i]), self.sample_probabilities[i]>>]

\* self.sample_space(): a generator that has not started.  It holds self; pos
\* is the number of pairs it has taken from zip(...), done whether it has
\* returned, and produced the history of what it has yielded.
sample_space_generator(self) ==
    [self |-> self, pos |-> 0, done |-> FALSE, produced |-> <<>>]

\* the same loop, which steps over every other pair
sample_space_next_Skipping(generator) ==
    LET self == generator.self
        length == Min(Len(self.sample_space), Len(self.sample_probabilities))
        at == generator.pos + IF generator.pos > 0 THEN 2 ELSE 1
    IN IF generator.done \/ at > length
       THEN [generator |-> [generator EXCEPT !.done = TRUE], ret |-> "StopIteration"]
       ELSE LET pair == <<JessenSample(self.sample_space[at]), self.sample_probabilities[at]>>
            IN [generator |-> [generator EXCEPT !.pos = at,
                                                !.produced = Append(@, pair)],
                ret |-> pair]

\* next(generator): the next turn of the loop over zip(self.__sample_space,
\* self.__sample_probabilities), which yields the pair or ends the generator
sample_space_next(generator) ==
    LET self == generator.self
        length == Min(Len(self.sample_space), Len(self.sample_probabilities))
    IN IF generator.done \/ generator.pos >= length
       THEN [generator |-> [generator EXCEPT !.done = TRUE], ret |-> "StopIteration"]
       ELSE LET pair == <<JessenSample(self.sample_space[generator.pos + 1]),
                          self.sample_probabilities[generator.pos + 1]>>
            IN [generator |-> [generator EXCEPT !.pos = @ + 1,
                                                !.produced = Append(@, pair)],
                ret |-> pair]

\* sample(rng), rng.random() returning x/RandomDen
JessenSampling_sample(self, x) ==
    JessenSample(self.sample_space[AliasMethod_sample(self.alias, x) + 1])

\* build(sample_size): the builder it leaves, what it returns or raises, and the
\* JessenSampling it returns
JessenBuilder_build(self, size) ==
    IF ~(0 < size /\ size <= Len(self.heap))
    THEN [self |-> self, ret |-> "ValueError", sampling |-> NoSampling]
    ELSE LET normalized ==
                 JessenBuilder_normalize(self.heap, 1, size, self.weight_sum)
         IN IF Raised(normalized.ret)
            THEN [self |-> JessenBuilder(normalized.heap, self.weight_sum),
                  ret |-> normalized.ret, sampling |-> NoSampling]
            ELSE LET tableau == JessenBuilder_loop(heapify(normalized.heap), size,
                                                   Tableau(<<>>, <<>>), One)
                     made == JessenSampling__init__(tableau.sample_space,
                                                    tableau.sample_probabilities)
                 IN [self |-> JessenBuilder_reset(self),
                     ret |-> IF Raised(made.ret) THEN made.ret ELSE "JessenSampling",
                     sampling |-> made.self]

\* no successful build yet
NoBuilt == [weights |-> <<>>, weight_sum |-> Zero, sample_size |-> 0]

InitWhole ==
    /\ builder = JessenBuilder__init__
    /\ sampling = NoSampling
    /\ infeasible = 0
    /\ built = NoBuilt
    /\ iterators = <<>>
    /\ alias_method = NoAlias
    /\ distribution = <<>>
    /\ swor_generator = NoGenerator

\* ------------------------------------------------------------------ state
Assign(self) ==
    /\ stream_size' = self.stream_size
    /\ reservoir' = self.reservoir
    /\ skip' = self.skip
    /\ skip_function' = self.skip_function
    /\ rng' = self.rng
    /\ heap' = self.heap
    /\ reservoir_view' = self.reservoir_view
    /\ UNCHANGED <<kind, sample_size>>

Call(op, weight) == [op |-> op, weight |-> weight]

\* AbstractReservoirSampling.__init__: the first skip is pulled by the constructor
InitAbstractReservoirSampling ==
    /\ kind = "AbstractReservoirSampling"
    /\ skip \in 0..MaxSkip
    /\ skip_function = 1
    /\ reservoir_view = SequenceDecorator(1, ListOfAttribute("__reservoir"), "identity")
    /\ decorators = 1

\* OrderSampling.__init__: no skip
InitOrderSampling ==
    /\ kind \in OrderKinds
    /\ skip = 0
    /\ skip_function = 0
    /\ reservoir_view = NoView
    /\ decorators = 0

Init ==
    /\ InitAbstractReservoirSampling \/ InitOrderSampling
    /\ sample_size \in 1..MaxSampleSize
    /\ stream_size = 0
    /\ reservoir = <<>>
    /\ heap = <<>>
    /\ rng = 0
    /\ call = Call("none", NoWeight)
    /\ result = "none"
    /\ stream = <<>>
    /\ generated = EmptyBag
    /\ yielded = <<>>
    /\ returns = <<>>
    /\ views = <<>>
    /\ InitWhole

Put ==
    /\ kind = "AbstractReservoirSampling"
    /\ Len(stream) < MaxStream
    /\ \E element \in Inputs, tape \in Tapes(sample_size, 1) :
        LET r == AbstractReservoirSampling_put(Self, element, tape)
        IN /\ Assign(r.self)
           /\ call' = Call("put", NoWeight)
           /\ result' = r.ret
           /\ stream' = IF r.ret = "ValueError" THEN stream ELSE Append(stream, element)
           /\ UNCHANGED <<generated, yielded, returns, decorators, views, whole>>

\* the elements of an iterable that its loop got through before it ended or raised
Passed(iterable, ret) ==
    IF ret = "ValueError"
    THEN SubSeq(iterable, 1, (CHOOSE i \in 1..Len(iterable) :
                                 /\ iterable[i] = None
                                 /\ \A j \in 1..(i - 1) : iterable[j] # None) - 1)
    ELSE iterable

PutIterable ==
    /\ kind = "AbstractReservoirSampling"
    /\ \E iterable \in SeqsUpTo(Inputs, Min(MaxSeqLen, MaxStream - Len(stream))) :
       \E tape \in Tapes(sample_size, Len(iterable)) :
        LET r == AbstractReservoirSampling_put_iterable(Self, iterable, tape)
        IN /\ Assign(r.self)
           /\ call' = Call("put_iterable", NoWeight)
           /\ result' = r.ret
           /\ stream' = stream \o Passed(iterable, r.ret)
           /\ UNCHANGED <<generated, yielded, returns, decorators, views, whole>>

PutSequence ==
    /\ kind = "AbstractReservoirSampling"
    /\ \E sequence \in SeqsUpTo(Inputs, Min(MaxSeqLen, MaxStream - Len(stream))) :
       \E tape \in Tapes(sample_size, Len(sequence)) :
        LET r == AbstractReservoirSampling_put_sequence(Self, sequence, tape)
        IN /\ Assign(r.self)
           /\ call' = Call("put_sequence", NoWeight)
           /\ result' = r.ret
           /\ stream' = stream \o sequence
           /\ UNCHANGED <<generated, yielded, returns, decorators, views, whole>>

OrderPut ==
    /\ kind \in OrderKinds
    /\ Len(stream) < MaxPuts
    /\ \E element \in Inputs, weight \in Weights \cup {NoWeight},
          raws \in RawDraws(MaxZeroDraws - (rng - stream_size)) :
        LET r == OrderSampling_put(Self, element, weight, raws)
            given == IF weight = NoWeight THEN default_weight(kind) ELSE weight
        IN /\ Assign(r.self)
           /\ call' = Call("put", weight)
           /\ result' = r.ret
           /\ stream' = IF Raised(r.ret) THEN stream ELSE Append(stream, element)
           /\ generated' = IF Raised(r.ret)
                           THEN generated
                           ELSE generated (+) SetToBag({NewItem(Self, element, given, raws)})
           /\ UNCHANGED <<yielded, returns, decorators, views, whole>>

Next ==
    \/ Put
    \/ PutIterable
    \/ PutSequence
    \/ OrderPut

Spec == Init /\ [][Next]_vars

\* ---------------------------------------------------------- SpecWeighted
\* One OrderSampling instance fed by put_iterable alone, with and without weights.
\* The weights of the iterables: 1/2 (legal for every strategy), 1 (legal but for
\* Pareto) and None (the default weight).
IterableWeights == {Finite(1, WeightDen), Finite(WeightDen, WeightDen), NoWeight}

\* a put_iterable call on an OrderSampling instance, as the history keeps it
CallIterable(elements, weights) ==
    [op |-> "put_iterable", weight |-> NoWeight, elements |-> Len(elements),
     weights |-> IF weights.none THEN -1 ELSE Len(weights.items)]

\* the pairs put_iterable goes through
Pairs(elements, weights) ==
    IF weights.none
    THEN [i \in 1..Len(elements) |-> <<elements[i], NoWeight>>]
    ELSE zip(elements, weights.items)

\* the items the first n puts of a put_iterable call create
Created(self, pairs, rawss, n) ==
    [i \in 1..n |->
        NewItem(self, pairs[i][1],
                IF pairs[i][2] = NoWeight THEN default_weight(self.kind) ELSE pairs[i][2],
                rawss[i])]

OrderPutIterable ==
    /\ kind \in OrderKinds
    /\ \E elements \in SeqsUpTo({None, MaxElement}, Min(MaxSeqLen, MaxPuts - Len(stream))),
          weights \in {NoWeights} \cup
                      {WeightsOf(w) : w \in SeqsUpTo(IterableWeights, MaxSeqLen)} :
       \E rawss \in [1..Len(Pairs(elements, weights))
                        -> RawDraws(MaxZeroDraws - (rng - stream_size))] :
       \E r \in {AbstractWeightedReservoirSampling_put_iterable(Self, elements, weights,
                                                                rawss)} :
        /\ r.self.rng - r.self.stream_size <= MaxZeroDraws
        /\ Assign(r.self)
        /\ call' = CallIterable(elements, weights)
        /\ result' = r.ret
        /\ \E created \in {Created(Self, Pairs(elements, weights), rawss,
                                    r.self.stream_size - stream_size)} :
              /\ stream' = stream \o [i \in DOMAIN created |-> created[i].value]
              /\ generated' = generated (+) SeqBag(created)
        /\ UNCHANGED <<yielded, returns, decorators, views, whole>>

InitWeighted ==
    /\ Init
    /\ InitOrderSampling

NextWeighted == OrderPutIterable

SpecWeighted == InitWeighted /\ [][NextWeighted]_vars

\* -------------------------------------------------------------- SpecView
\* One instance of either engine, fed by put and read through its accessors; what
\* each sample() returned is written down with the items it showed at that moment
\* and the number of elements put before it.
ViewPut ==
    /\ kind = "AbstractReservoirSampling"
    /\ Len(stream) < MaxPuts
    /\ \E element \in Inputs, tape \in Tapes(sample_size, 1) :
       \E r \in {AbstractReservoirSampling_put(Self, element, tape)} :
        /\ Assign(r.self)
        /\ call' = Call("put", NoWeight)
        /\ result' = r.ret
        /\ stream' = IF Raised(r.ret) THEN stream ELSE Append(stream, element)
        /\ UNCHANGED <<generated, yielded, returns, decorators, views, whole>>

ViewOrderPut ==
    /\ kind \in OrderKinds
    /\ Len(stream) < MaxPuts
    /\ \E element \in Inputs, weight \in IterableWeights,
          raws \in RawDraws(MaxZeroDraws - (rng - stream_size)) :
       \E r \in {OrderSampling_put(Self, element, weight, raws)} :
        /\ Assign(r.self)
        /\ call' = Call("put", weight)
        /\ result' = r.ret
        /\ stream' = IF Raised(r.ret) THEN stream ELSE Append(stream, element)
        /\ UNCHANGED <<generated, yielded, returns, decorators, views, whole>>

Sample ==
    /\ Len(views) < MaxSamples
    /\ \E r \in {sample(Self, decorators)} :
        /\ Assign(r.self)
        /\ decorators' = IF r.ret.id > decorators THEN r.ret.id ELSE decorators
        /\ views' = Append(views, [view |-> r.ret,
                                   seen |-> ListOfView(r.self, r.ret),
                                   at |-> Len(stream)])
        /\ call' = Call("sample", NoWeight)
        /\ result' = "SequenceDecorator"
        /\ UNCHANGED <<stream, generated, yielded, returns, whole>>

SampleSize ==
    \E r \in {sample_size_(Self)} :
        /\ Assign(r.self)
        /\ call' = Call("sample_size", NoWeight)
        /\ result' = r.ret
        /\ UNCHANGED <<stream, generated, yielded, returns, decorators, views, whole>>

StreamSize ==
    \E r \in {stream_size_(Self)} :
        /\ Assign(r.self)
        /\ call' = Call("stream_size", NoWeight)
        /\ result' = r.ret
        /\ UNCHANGED <<stream, generated, yielded, returns, decorators, views, whole>>

NextView ==
    \/ ViewPut
    \/ ViewOrderPut
    \/ Sample
    \/ SampleSize
    \/ StreamSize

SpecView == Init /\ [][NextView]_vars

\* -------------------------------------------------------- SpecStrategies
\* One use of an unweighted strategy, from the call that is to make the instance:
\* kind is the class and sample_size the argument of that call.
InitStrategies ==
    /\ kind \in Strategies
    /\ sample_size \in 0..MaxSampleSize
    /\ stream_size = 0
    /\ reservoir = <<>>
    /\ heap = <<>>
    /\ skip = 0
    /\ skip_function = 0
    /\ rng = 0
    /\ reservoir_view = NoView
    /\ decorators = 0
    /\ call = Call("none", NoWeight)
    /\ result = "none"
    /\ stream = <<>>
    /\ generated = EmptyBag
    /\ yielded = <<>>
    /\ returns = <<>>
    /\ views = <<>>
    /\ InitWhole

\* the instance has been made
Exists == reservoir_view # NoView

\* the values rng.randrange can return to the puts of the elements to come
WatermanDraws(n) == [1..n -> 0..stream_size]

\* kind(sample_size)
Construct ==
    /\ call.op = "none"
    /\ \E first \in 0..MaxSkip :
       \E r \in {new(kind, sample_size, first)} :
        /\ Assign(r.self)
        /\ decorators' = r.self.reservoir_view.id
        /\ call' = Call("__init__", NoWeight)
        /\ result' = r.ret
        /\ UNCHANGED <<stream, generated, yielded, returns, views, whole>>

\* waterman_sampling(collection, sample_size)
WatermanSamplingCall ==
    /\ call.op = "none"
    /\ kind = "WatermanSampling"
    /\ \E collection \in SeqsUpTo(Elements, MaxSeqLen) :
       \E draws \in WatermanDraws(Len(collection)) :
       \E r \in {waterman_sampling(collection, sample_size, draws)} :
        /\ Assign(r.self)
        /\ decorators' = r.self.reservoir_view.id
        /\ call' = Call("waterman_sampling", NoWeight)
        /\ result' = r.ret
        /\ stream' = IF r.ret = "list" THEN collection ELSE stream
        /\ UNCHANGED <<generated, yielded, returns, views, whole>>

StrategyPut ==
    /\ Exists
    /\ Len(stream) < MaxPuts
    /\ \E element \in Inputs, tape \in Tapes(sample_size, 1), draws \in WatermanDraws(1) :
       \E r \in {Strategy_put(Self, element, tape, draws)} :
        /\ Assign(r.self)
        /\ call' = Call("put", NoWeight)
        /\ result' = r.ret
        /\ stream' = IF Raised(r.ret) THEN stream ELSE Append(stream, element)
        /\ UNCHANGED <<generated, yielded, returns, decorators, views, whole>>

StrategyPutIterable ==
    /\ Exists
    /\ \E iterable \in SeqsUpTo(Inputs, Min(MaxSeqLen, MaxPuts - Len(stream))) :
       \E tape \in Tapes(sample_size, Len(iterable)),
          draws \in WatermanDraws(Len(iterable)) :
       \E r \in {Strategy_put_iterable(Self, iterable, tape, draws)} :
        /\ Assign(r.self)
        /\ call' = Call("put_iterable", NoWeight)
        /\ result' = r.ret
        /\ stream' = stream \o Passed(iterable, r.ret)
        /\ UNCHANGED <<generated, yielded, returns, decorators, views, whole>>

StrategyPutSequence ==
    /\ Exists
    /\ \E sequence \in SeqsUpTo(Inputs, Min(MaxSeqLen, MaxPuts - Len(stream))) :
       \E tape \in Tapes(sample_size, Len(sequence)) :
       \E r \in {Strategy_put_sequence(Self, sequence, tape)} :
        /\ Assign(r.self)
        /\ call' = Call("put_sequence", NoWeight)
        /\ result' = r.ret
        /\ stream' = IF Raised(r.ret) THEN stream ELSE stream \o sequence
        /\ UNCHANGED <<generated, yielded, returns, decorators, views, whole>>

NextStrategies ==
    \/ Construct
    \/ WatermanSamplingCall
    \/ StrategyPut
    \/ StrategyPutIterable
    \/ StrategyPutSequence

SpecStrategies == InitStrategies /\ [][NextStrategies]_vars

\* --------------------------------------------------------- SpecUnweighted
\* One unweighted engine, skip-based or Waterman, whose stream is 1, 2, 3, ...:
\* each element supplied is the number of its position, so that a slot tells
\* the position it was taken from.  WatermanSampling itself cannot be
\* instantiated (abstractmethods("WatermanSampling") is not empty); the
\* Waterman instance here is one of a subclass that defines put_sequence and
\* nothing else, left as WatermanSampling.__init__ leaves it.
Unweighted == {"AbstractReservoirSampling", "WatermanSampling"}

InitUnweighted ==
    /\ \/ InitAbstractReservoirSampling
       \/ /\ kind = "WatermanSampling"
          /\ skip = 0
          /\ skip_function = 0
          /\ reservoir_view = WatermanSampling__init__(
                                  NoInstance("WatermanSampling", 1)).self.reservoir_view
          /\ decorators = 1
    /\ sample_size \in 1..MaxSampleSize
    /\ stream_size = 0
    /\ reservoir = <<>>
    /\ heap = <<>>
    /\ rng = 0
    /\ call = Call("none", NoWeight)
    /\ result = "none"
    /\ stream = <<>>
    /\ generated = EmptyBag
    /\ yielded = <<>>
    /\ returns = <<>>
    /\ views = <<>>
    /\ InitWhole

\* the next n elements of the stream
Coming(n) == [i \in 1..n |-> Len(stream) + i]

\* the draws of a Waterman put_iterable of n elements: those the puts on the
\* full reservoir take, in order, each below the stream size of its put; the
\* draws left unused are 0
RECURSIVE WatermanDrawsInRange(_, _, _)
WatermanDrawsInRange(self, n, draws) ==
    IF n = 0 THEN \A j \in 1..Len(draws) : draws[j] = 0
    ELSE IF Len(self.reservoir) < self.sample_size
    THEN WatermanDrawsInRange(WatermanSampling_put(self, 1, draws).self, n - 1, draws)
    ELSE /\ Head(draws) < self.stream_size + 1
         /\ WatermanDrawsInRange(WatermanSampling_put(self, 1, draws).self, n - 1,
                                 Tail(draws))

\* the random values n puts can consume: slot and skip pairs for the skip-based
\* engine, values of randrange(0, stream_size) for Waterman
UnweightedTapes(n) ==
    IF kind = "WatermanSampling" THEN {<<>>} ELSE Tapes(sample_size, n)
UnweightedDraws(n) ==
    IF kind = "WatermanSampling"
    THEN {draws \in [1..n -> 0..(stream_size + n - 1)] :
              WatermanDrawsInRange(Self, n, draws)}
    ELSE {<<>>}

UnweightedPut ==
    /\ kind \in Unweighted
    /\ Len(stream) < MaxStream
    /\ \E element \in {Len(stream) + 1, None}, tape \in UnweightedTapes(1),
          draws \in UnweightedDraws(1) :
       \E r \in {Strategy_put(Self, element, tape, draws)} :
        /\ Assign(r.self)
        /\ call' = Call("put", NoWeight)
        /\ result' = r.ret
        /\ stream' = IF Raised(r.ret) THEN stream ELSE Append(stream, element)
        /\ UNCHANGED <<generated, yielded, returns, decorators, views, whole>>

UnweightedPutIterable ==
    /\ kind \in Unweighted
    /\ \E n \in 0..Min(MaxSeqLen, MaxStream - Len(stream)) :
       \E tape \in UnweightedTapes(n), draws \in UnweightedDraws(n) :
       \E r \in {Strategy_put_iterable(Self, Coming(n), tape, draws)} :
        /\ Assign(r.self)
        /\ call' = Call("put_iterable", NoWeight)
        /\ result' = r.ret
        /\ stream' = stream \o Coming(n)
        /\ UNCHANGED <<generated, yielded, returns, decorators, views, whole>>

\* put_sequence, of the skip-based engine
UnweightedPutSequence ==
    /\ kind = "AbstractReservoirSampling"
    /\ \E n \in 0..Min(MaxSeqLen, MaxStream - Len(stream)) :
       \E tape \in Tapes(sample_size, n) :
       \E r \in {AbstractReservoirSampling_put_sequence(Self, Coming(n), tape)} :
        /\ Assign(r.self)
        /\ call' = Call("put_sequence", NoWeight)
        /\ result' = r.ret
        /\ stream' = stream \o Coming(n)
        /\ UNCHANGED <<generated, yielded, returns, decorators, views, whole>>

NextUnweighted ==
    \/ UnweightedPut
    \/ UnweightedPutIterable
    \/ UnweightedPutSequence

SpecUnweighted == InitUnweighted /\ [][NextUnweighted]_vars

\* ---------------------------------------------------------- SpecConstruct
\* One use of any engine, from the call that is to make the instance, with
\* sample sizes below 1 among those given.
Engines == Strategies \cup OrderKinds

\* OrderSampling.__init__, which the three order strategies inherit
OrderSampling__init__(self) ==
    IF self.sample_size < 1
    THEN Outcome(self, "ValueError", <<>>)
    ELSE Outcome([self EXCEPT !.stream_size = 0, !.heap = <<>>], "None", <<>>)

\* class(sample_size) of any engine
new_engine(class, size, first) ==
    IF class \in OrderKinds
    THEN OrderSampling__init__(NoInstance(class, size))
    ELSE new(class, size, first)

InitConstruct ==
    /\ kind \in Engines
    /\ sample_size \in (0 - 1)..MaxSampleSize
    /\ stream_size = 0
    /\ reservoir = <<>>
    /\ heap = <<>>
    /\ skip = 0
    /\ skip_function = 0
    /\ rng = 0
    /\ reservoir_view = NoView
    /\ decorators = 0
    /\ call = Call("none", NoWeight)
    /\ result = "none"
    /\ stream = <<>>
    /\ generated = EmptyBag
    /\ yielded = <<>>
    /\ returns = <<>>
    /\ views = <<>>
    /\ InitWhole

\* the call of the constructor has returned: there is an instance to put to
Constructed == call.op # "none" /\ ~(call.op = "__init__" /\ Raised(result))

\* kind(sample_size)
ConstructEngine ==
    /\ call.op = "none"
    /\ \E first \in 0..MaxSkip :
       \E r \in {new_engine(kind, sample_size, first)} :
        /\ Assign(r.self)
        /\ decorators' = r.self.reservoir_view.id
        /\ call' = Call("__init__", NoWeight)
        /\ result' = r.ret
        /\ UNCHANGED <<stream, generated, yielded, returns, views, whole>>

\* put on the instance made
ConstructedPut ==
    /\ Constructed
    /\ \/ kind \in Strategies /\ StrategyPut
       \/ OrderPut

NextConstruct ==
    \/ ConstructEngine
    \/ ConstructedPut

SpecConstruct == InitConstruct /\ [][NextConstruct]_vars

\* ------------------------------------------------------------- SpecJessen
\* One JessenBuilder and the JessenSampling its last successful build returned.
\* The items are numbered from 0 in the order they are added, as add_weights
\* numbers them, and the weights are the integers 0..MaxJessenWeight.
JessenWeights == {Rational(w, 1) : w \in 0..MaxJessenWeight}

engine == <<kind, sample_size, stream_size, reservoir, skip, skip_function, rng, heap,
            stream, generated, yielded, returns, reservoir_view, decorators, views>>

InitJessen ==
    /\ kind = "JessenBuilder"
    /\ sample_size = 0
    /\ stream_size = 0
    /\ reservoir = <<>>
    /\ heap = <<>>
    /\ skip = 0
    /\ skip_function = 0
    /\ rng = 0
    /\ reservoir_view = NoView
    /\ decorators = 0
    /\ call = Call("none", NoWeight)
    /\ result = "none"
    /\ stream = <<>>
    /\ generated = EmptyBag
    /\ yielded = <<>>
    /\ returns = <<>>
    /\ views = <<>>
    /\ InitWhole

\* the weights of the entries of a population
WeightsIn(h) == [i \in 1..Len(h) |-> h[i].weight]

\* builder.add(item, weight)
JessenAdd ==
    /\ Len(builder.heap) < (IF sampling = NoSampling THEN MaxPopulation ELSE MaxReuse)
    /\ \E weight \in JessenWeights :
         \E r \in {JessenBuilder_add(builder, Len(builder.heap), weight)} :
            /\ builder' = r.self
            /\ call' = Call("add", weight)
            /\ result' = r.ret
    /\ UNCHANGED <<sampling, infeasible, built, iterators, engine, standalone, simple>>

\* builder.build(size)
JessenBuild ==
    /\ infeasible < MaxInfeasible
    /\ \E size \in 0..(Len(builder.heap) + 1) :
         \E r \in {JessenBuilder_build(builder, size)} :
            /\ builder' = r.self
            /\ call' = [op |-> "build", sample_size |-> size]
            /\ result' = r.ret
            /\ infeasible' = IF r.ret = "InfeasibleCaseError" THEN infeasible + 1
                             ELSE IF r.self.heap = <<>> THEN 0 ELSE infeasible
            /\ IF Raised(r.ret)
               THEN UNCHANGED <<sampling, built>>
               ELSE /\ sampling' = r.sampling
                    /\ built' = [weights |-> WeightsIn(builder.heap),
                                 weight_sum |-> builder.weight_sum,
                                 sample_size |-> size]
    /\ UNCHANGED <<iterators, engine, standalone, simple>>

\* builder.reset(); the call keeps the number of failed builds it came after
JessenReset ==
    /\ builder' = JessenBuilder_reset(builder)
    /\ call' = [op |-> "reset", infeasible |-> infeasible]
    /\ result' = "None"
    /\ infeasible' = 0
    /\ UNCHANGED <<sampling, built, iterators, engine, standalone, simple>>

\* list(sampling.sample_space())
JessenSampleSpace ==
    /\ sampling # NoSampling
    /\ call' = [op |-> "sample_space"]
    /\ result' = JessenSampling_sample_space(sampling)
    /\ UNCHANGED <<builder, sampling, infeasible, built, iterators, engine, standalone, simple>>

\* sampling.sample(rng)
JessenSampleCall ==
    /\ sampling # NoSampling
    /\ \E x \in 0..(RandomDen - 1) :
         /\ call' = [op |-> "sample", x |-> x]
         /\ result' = JessenSampling_sample(sampling, x)
    /\ UNCHANGED <<builder, sampling, infeasible, built, iterators, engine, standalone, simple>>

NextJessen ==
    \/ JessenAdd
    \/ JessenBuild
    \/ JessenReset
    \/ JessenSampleSpace
    \/ JessenSampleCall

SpecJessen == InitJessen /\ [][NextJessen]_vars

\* ---------------------------------------------------------- SpecJessenInf
\* The same builder, which may also be given the weight float('inf').
JessenAddInf ==
    /\ Len(builder.heap) < (IF sampling = NoSampling THEN MaxPopulation ELSE MaxReuse)
    /\ \E r \in {JessenBuilder_add(builder, Len(builder.heap), inf)} :
         /\ builder' = r.self
         /\ call' = Call("add", inf)
         /\ result' = r.ret
    /\ UNCHANGED <<sampling, infeasible, built, iterators, engine, standalone, simple>>

NextJessenInf ==
    \/ NextJessen
    \/ JessenAddInf

SpecJessenInf == InitJessen /\ [][NextJessenInf]_vars

\* ---------------------------------------------------------- SpecJessenNan
\* The same builder, which may also be given the weight float('nan'): add
\* turns away a weight <= 0 only, and nan is not.
JessenAddNan ==
    /\ Len(builder.heap) < (IF sampling = NoSampling THEN MaxPopulation ELSE MaxReuse)
    /\ \E r \in {JessenBuilder_add(builder, Len(builder.heap), nan)} :
         /\ builder' = r.self
         /\ call' = Call("add", nan)
         /\ result' = r.ret
    /\ UNCHANGED <<sampling, infeasible, built, iterators, engine, standalone, simple>>

NextJessenNan ==
    \/ NextJessen
    \/ JessenAddNan

SpecJessenNan == InitJessen /\ [][NextJessenNan]_vars

\* ---------------------------------------------------------- SpecJessenAdd
\* One JessenBuilder and the methods that add to it, until it holds MaxSeqLen
\* entries.  The weights are -1, 0, 1 and nan; a batch is given at most
\* MaxSeqLen weights.
AddWeights == {Rational(0 - 1, 1), Zero, One, nan}
AddBatches == SeqsUpTo(AddWeights, MaxSeqLen)
\* the items of the explicit populations: 10, 11, ...
PopulationOf(n) == [i \in 1..n |-> 9 + i]
Room(n) == Len(builder.heap) + n <= MaxSeqLen

JessenAddAny ==
    /\ Room(1)
    /\ \E weight \in AddWeights :
         \E r \in {JessenBuilder_add(builder, Len(builder.heap), weight)} :
            /\ builder' = r.self
            /\ call' = Call("add", weight)
            /\ result' = r.ret
    /\ UNCHANGED <<sampling, infeasible, built, iterators, engine, standalone, simple>>

\* a batch add as the history keeps it: the method, the number of weights it
\* was given and the number of pairs it added
CallBatch(op, weights, after) ==
    [op |-> op, weights |-> Len(weights), added |-> Len(after.heap) - Len(builder.heap)]

JessenAddWeights ==
    /\ \E weights \in AddBatches :
         \E r \in {JessenBuilder_add_weights(builder, weights)} :
            /\ Room(Len(weights))
            /\ builder' = r.self
            /\ call' = CallBatch("add_weights", weights, r.self)
            /\ result' = r.ret
    /\ UNCHANGED <<sampling, infeasible, built, iterators, engine, standalone, simple>>

\* add_range(population, weights), the population one item longer or shorter
\* than the weights, or as long
JessenAddRange ==
    /\ \E weights \in AddBatches, n \in 0..(MaxSeqLen + 1) :
         \E r \in {JessenBuilder_add_range(builder, PopulationOf(n), weights)} :
            /\ Room(Len(weights))
            /\ n >= Len(weights) - 1
            /\ n <= Len(weights) + 1
            /\ builder' = r.self
            /\ call' = CallBatch("add_range", weights, r.self)
            /\ result' = r.ret
    /\ UNCHANGED <<sampling, infeasible, built, iterators, engine, standalone, simple>>

\* add_mapping(n, weights) and add_mapping(population, weights)
JessenAddMapping ==
    /\ \E weights \in AddBatches, is_int \in BOOLEAN :
         LET n == Len(weights)
             population == IF is_int THEN range(n) ELSE PopulationOf(n)
             mapping == [item \in {population[i] : i \in 1..n} |->
                            weights[CHOOSE i \in 1..n : population[i] = item]]
         IN \E r \in {IF is_int
                       THEN JessenBuilder_add_mapping(builder, TRUE, n, mapping)
                       ELSE JessenBuilder_add_mapping(builder, FALSE, population, mapping)} :
               /\ Room(n)
               /\ builder' = r.self
               /\ call' = CallBatch("add_mapping", weights, r.self)
               /\ result' = r.ret
    /\ UNCHANGED <<sampling, infeasible, built, iterators, engine, standalone, simple>>

\* add_dictionary({10: w, 11: w, ...})
JessenAddDictionary ==
    /\ \E weights \in AddBatches :
         \E r \in {JessenBuilder_add_dictionary(
                       builder, zip(PopulationOf(Len(weights)), weights))} :
            /\ Room(Len(weights))
            /\ builder' = r.self
            /\ call' = CallBatch("add_dictionary", weights, r.self)
            /\ result' = r.ret
    /\ UNCHANGED <<sampling, infeasible, built, iterators, engine, standalone, simple>>

NextJessenAdd ==
    \/ JessenAddAny
    \/ JessenAddWeights
    \/ JessenAddRange
    \/ JessenAddMapping
    \/ JessenAddDictionary
    \/ JessenReset

SpecJessenAdd == InitJessen /\ [][NextJessenAdd]_vars

\* -------------------------------------------------------- SpecJessenSpace
\* A builder, the JessenSampling it builds, and up to MaxIterators generators
\* of its sample space, advanced one pair at a time in any order and between
\* calls of sample.
MaxIterators == 2

\* builder.add(item, weight) of the weights 1 and 2, before the build
JessenAddOneOrTwo ==
    /\ sampling = NoSampling
    /\ Len(builder.heap) < MaxPopulation
    /\ \E weight \in {One, Rational(2, 1)} :
         \E r \in {JessenBuilder_add(builder, Len(builder.heap), weight)} :
            /\ builder' = r.self
            /\ call' = Call("add", weight)
            /\ result' = r.ret
    /\ UNCHANGED <<sampling, infeasible, built, iterators, engine, standalone, simple>>

\* sampling.sample_space()
JessenIterator ==
    /\ sampling # NoSampling
    /\ Len(iterators) < MaxIterators
    /\ iterators' = Append(iterators, sample_space_generator(sampling))
    /\ call' = [op |-> "sample_space()"]
    /\ result' = "generator"
    /\ UNCHANGED <<builder, sampling, infeasible, built, engine, standalone, simple>>

\* next(iterators[i])
JessenIteratorNext ==
    /\ \E i \in 1..Len(iterators) :
         \E r \in {sample_space_next(iterators[i])} :
            /\ iterators' = [iterators EXCEPT ![i] = r.generator]
            /\ call' = [op |-> "next", i |-> i]
            /\ result' = r.ret
    /\ UNCHANGED <<builder, sampling, infeasible, built, engine, standalone, simple>>

NextJessenSpace ==
    \/ JessenAddOneOrTwo
    \/ JessenBuild
    \/ JessenSampleCall
    \/ JessenIterator
    \/ JessenIteratorNext

SpecJessenSpace == InitJessen /\ [][NextJessenSpace]_vars

\* -------------------------------------------------------------- SpecAlias
\* An AliasMethod constructed on its own from a vector of at most MaxAlias
\* floats, and sampled.  The entries are the multiples of 1/AliasDen from
\* -1/AliasDen to 1 + 1/AliasDen, inf and nan; the distribution of the test is
\* among the vectors.
MaxAlias == 3
AliasDen == 4
AliasEntries == {Rational(i, AliasDen) : i \in (0 - 1)..(AliasDen + 1)} \cup {inf, nan}
TestDistribution == <<Rational(1, 10), Rational(2, 10), Rational(3, 10), Rational(4, 10)>>
AliasVectors == SeqsUpTo(AliasEntries, MaxAlias) \cup {TestDistribution}

\* alias_method = AliasMethod(probabilities), until it has returned an instance
AliasConstruct ==
    /\ alias_method = NoAlias
    /\ \E probabilities \in AliasVectors :
         \E r \in {AliasMethod__init__(probabilities)} :
            /\ alias_method' = IF Raised(r.ret) THEN alias_method ELSE r.self
            /\ distribution' = IF Raised(r.ret) THEN distribution ELSE probabilities
            /\ call' = [op |-> "AliasMethod", probabilities |-> probabilities]
            /\ result' = r.ret
    /\ UNCHANGED <<builder, sampling, infeasible, built, iterators, engine, simple>>

\* alias_method.sample(rng)
AliasSample ==
    /\ alias_method # NoAlias
    /\ \E x \in 0..(RandomDen - 1) :
         /\ call' = [op |-> "sample", x |-> x]
         /\ result' = AliasMethod_sample(alias_method, x)
    /\ UNCHANGED <<builder, sampling, infeasible, built, iterators, engine, standalone, simple>>

NextAlias ==
    \/ AliasConstruct
    \/ AliasSample

SpecAlias == InitJessen /\ [][NextAlias]_vars

\* --------------------------------------------------------------- SpecSwor
\* One call of swor(n, k) with n up to MaxSworN and k from -1 to n + 1, and the
\* generator it returns advanced to its end, for every value of the draws.
MaxSworN == 4

\* generator = swor(n, k)
SworCall ==
    /\ swor_generator = NoGenerator
    /\ \E n \in 0..MaxSworN, k \in (0 - 1)..(MaxSworN + 1) :
         /\ k <= n + 1
         /\ swor_generator' = swor(n, k)
         /\ call' = [op |-> "swor", n |-> n, k |-> k]
         /\ result' = "generator"
    /\ UNCHANGED <<builder, sampling, infeasible, built, iterators, engine, standalone>>

\* the values rng.randrange(0, n - i) can return to the turn of the loop that
\* next(g) runs (0 stands for no draw when the turn makes none)
SworDraws(g) ==
    LET i == IF g.at = "suspended" THEN g.i + 1 ELSE g.i
    IN IF g.at = "finished" \/ i >= g.k \/ ~(g.n >= g.k /\ g.k >= 0)
       THEN {0}
       ELSE 0..(g.n - i - 1)

\* next(generator)
SworNext ==
    /\ swor_generator # NoGenerator
    /\ \E draw \in SworDraws(swor_generator) :
         \E r \in {swor_next(swor_generator, draw)} :
            /\ swor_generator' = r.generator
            /\ call' = [op |-> "next", draw |-> draw, value |-> r.value]
            /\ result' = r.ret
    /\ UNCHANGED <<builder, sampling, infeasible, built, iterators, engine, standalone>>

NextSwor ==
    \/ SworCall
    \/ SworNext

SpecSwor == InitJessen /\ [][NextSwor]_vars

\* ---------------------------------------------------------- SpecVariates
\* The computations that take uniform variates: the key of the three weighted
\* strategies for a legal weight, and the first skip of Li L and of Vitter Z
\* (sample size 1), for every raw draw rng.random() can return, 0 included.
MaxRaws == 4            \* raw draws one first skip of Vitter Z is given

\* the raw draws of three calls of random_exclusive
ThreeDraws ==
    {a \o b \o c : a \in RawDraws(MaxZeroDraws), b \in RawDraws(MaxZeroDraws),
                   c \in RawDraws(MaxZeroDraws)}

\* self._key(weight, rng) of an OrderSampling
KeyCall ==
    /\ \E class \in OrderKinds, raws \in RawDraws(MaxZeroDraws) :
       \E weight \in {w \in Weights : is_weight_legal(class, w)} :
         /\ call' = [op |-> "key", class |-> class, weight |-> weight, raws |-> raws]
         /\ result' = IF key(class, weight, random_exclusive(raws, 0).value)
                           = ZeroDivisionError
                      THEN "ZeroDivisionError"
                      ELSE "float"
    /\ UNCHANGED <<whole, engine>>

\* next(_li_l_skip_function(k, rng))
LiLCall ==
    /\ \E k \in 1..MaxSampleSize, raws \in ThreeDraws :
         /\ call' = [op |-> "li_l", sample_size |-> k, raws |-> raws]
         /\ result' = li_l_skip_function(k, raws).ret
    /\ UNCHANGED <<whole, engine>>

\* next(_vitter_z_skip_function(1, rng)), with the raw draws it takes
VitterZCall ==
    /\ \E raws \in SeqsUpTo(0..(RandomDen - 1), MaxRaws) \ {<<>>} :
         /\ vitter_z_skip_function(raws).ret # "running"
         /\ vitter_z_skip_function(raws).used = Len(raws)
         /\ call' = [op |-> "vitter_z", sample_size |-> 1, raws |-> raws,
                     value |-> vitter_z_skip_function(raws).value]
         /\ result' = vitter_z_skip_function(raws).ret
    /\ UNCHANGED <<whole, engine>>

NextVariates ==
    \/ KeyCall
    \/ LiLCall
    \/ VitterZCall

SpecVariates == InitJessen /\ [][NextVariates]_vars

\* ------------------------------------------------------------- SpecTrace
\* One skip-based instance fed by put alone, with the skips its generator yields and
\* the values put returns written down.  The sizes are those of the example in the
\* documentation of AbstractReservoirSampling.__init__: sample_size = 5, the skips
\* 1, 0, 2, 0, 4 and a vector of 17 return values.
DocSampleSize == 5
DocMaxSkip == 4
DocPuts == 17

TraceTapes(k) == [1..1 -> [slot : 0..(k - 1), skip : 0..DocMaxSkip]]

InitTrace ==
    /\ kind = "AbstractReservoirSampling"
    /\ sample_size \in 1..DocSampleSize
    /\ stream_size = 0
    /\ reservoir = <<>>
    /\ heap = <<>>
    /\ skip \in 0..DocMaxSkip
    /\ skip_function = 1
    /\ rng = 0
    /\ call = Call("none", NoWeight)
    /\ result = "none"
    /\ stream = <<>>
    /\ generated = EmptyBag
    /\ yielded = <<skip>>
    /\ returns = <<>>
    /\ reservoir_view = SequenceDecorator(1, ListOfAttribute("__reservoir"), "identity")
    /\ decorators = 1
    /\ views = <<>>
    /\ InitWhole

\* every sample size gets as many puts on its full reservoir as the example has
TracePut ==
    /\ Len(stream) - sample_size < DocPuts - DocSampleSize
    /\ \E element \in {None, MaxElement}, tape \in TraceTapes(sample_size) :
        LET r == AbstractReservoirSampling_put(Self, element, tape)
        IN /\ Assign(r.self)
           /\ call' = Call("put", NoWeight)
           /\ result' = r.ret
           /\ stream' = IF r.ret = "ValueError" THEN stream ELSE Append(stream, element)
           /\ returns' = IF r.ret = "ValueError" THEN returns ELSE Append(returns, r.ret)
           /\ yielded' = IF r.self.skip_function = skip_function
                         THEN yielded
                         ELSE Append(yielded, r.self.skip)
           /\ UNCHANGED <<generated, decorators, views, whole>>

NextTrace == TracePut

SpecTrace == InitTrace /\ [][NextTrace]_vars

\* ------------------------------------------------------------ properties
Skipping == kind = "AbstractReservoirSampling"
Ordering == kind \in OrderKinds

\* the last call was a put that returned (True or False)
PutReturned == call.op = "put" /\ ~Raised(result)

\* C1: stream_size() is the number of elements the instance has been handed, every
\* element of every sequence given to put_sequence included.
C1_StreamSizeCountsEveryElement ==
    Skipping => stream_size = Len(stream)

\* put_sequence and put_iterable leave the same reservoir, skip and skip-generator
\* position and return the same value, on every sequence drawn from S and every tape.
SameAsPutIterable(S) ==
    \A sequence \in SeqsUpTo(S, MaxSeqLen) :
        \A tape \in Tapes(sample_size, Len(sequence)) :
            LET a == AbstractReservoirSampling_put_sequence(Self, sequence, tape)
                b == AbstractReservoirSampling_put_iterable(Self, sequence, tape)
            IN /\ a.self.reservoir = b.self.reservoir
               /\ a.self.skip = b.self.skip
               /\ a.self.skip_function = b.self.skip_function
               /\ a.ret = b.ret

\* C2: from every state, for every sequence and every fixed stream of slot choices
\* and skip values, put_sequence ends as put_iterable does: same reservoir, same
\* remaining skip, same number of skip values consumed, same result.
C2_PutSequenceAsPutIterable ==
    Skipping => SameAsPutIterable(Inputs)

\* the same over the sequences that hold no None
PutSequenceAsPutIterableOnElements ==
    Skipping => SameAsPutIterable(Elements)

\* C3: a put of a non-None element into a reservoir that holds fewer than
\* sample_size elements appends that element and returns True; so while no more
\* than sample_size elements have been handed in, the reservoir is exactly those
\* elements in order, and a stream of exactly sample_size elements is kept in full.
C3_FillAppends ==
    Skipping =>
        /\ Len(stream) <= sample_size => reservoir = stream
        /\ Len(reservoir) < sample_size =>
              \A element \in Elements, tape \in Tapes(sample_size, 1) :
                  LET r == AbstractReservoirSampling_put(Self, element, tape)
                  IN /\ r.self.reservoir = Append(reservoir, element)
                     /\ r.ret = "True"

C3_Witness ==
    /\ Skipping /\ PutReturned /\ result = "True"
    /\ sample_size > 1
    /\ Len(stream) = sample_size
    /\ reservoir = stream
    /\ stream_size = sample_size

\* C4: on a full reservoir, a put with skip > 0 takes 1 from skip, returns False and
\* leaves the reservoir alone; a put with skip = 0 overwrites exactly one slot with
\* the element, pulls the next value of the skip generator into skip, returns True.
C4_FullReservoirPut ==
    (Skipping /\ Len(reservoir) = sample_size) =>
        \A element \in Elements, tape \in Tapes(sample_size, 1) :
            LET r == AbstractReservoirSampling_put(Self, element, tape)
            IN IF skip > 0
               THEN /\ r.self.skip = skip - 1
                    /\ r.ret = "False"
                    /\ r.self.reservoir = reservoir
                    /\ r.self.skip_function = skip_function
                    /\ r.self.rng = rng
               ELSE /\ \E i \in 1..sample_size :
                          /\ r.self.reservoir[i] = element
                          /\ \A j \in (1..sample_size) \ {i} :
                                r.self.reservoir[j] = reservoir[j]
                    /\ Len(r.self.reservoir) = sample_size
                    /\ r.self.skip_function = skip_function + 1
                    /\ r.self.skip = tape[1].skip
                    /\ r.ret = "True"

C4_Witness ==
    /\ Skipping /\ PutReturned /\ result = "True"
    /\ sample_size > 1
    /\ Len(stream) > sample_size
    /\ stream_size = Len(stream)
    /\ skip_function = 3
    /\ reservoir # SubSeq(stream, 1, sample_size)

\* C6: None is rejected by put, put_iterable and put_sequence: no operation goes
\* through a None, and no reservoir slot ever holds None.
C6_NoneRejected ==
    Skipping => /\ \A i \in DOMAIN reservoir : reservoir[i] # None
                /\ \A i \in DOMAIN stream : stream[i] # None

\* C7: a put that raises (None element, weight out of the domain) leaves the
\* stream size, the reservoir or queue, the skip, the skip generator and the random
\* source as they were, so the instance goes on as if the call had not been made.
C7_RaisingPutChangesNothing ==
    /\ Skipping =>
          \A element \in Inputs, tape \in Tapes(sample_size, 1) :
              LET r == AbstractReservoirSampling_put(Self, element, tape)
              IN /\ element = None <=> Raised(r.ret)
                 /\ Raised(r.ret) => r.self = Self
    /\ Ordering =>
          \A element \in Inputs, weight \in Weights \cup {NoWeight},
             raws \in RawDraws(MaxZeroDraws) :
              LET r == OrderSampling_put(Self, element, weight, raws)
              IN /\ element = None => Raised(r.ret)
                 /\ Raised(r.ret) => r.self = Self

C7_Witness ==
    /\ Ordering /\ call.op = "put" /\ result = "BadWeightError"
    /\ Len(heap) = sample_size
    /\ stream_size = sample_size

\* heap[m] has a smallest key of the heap
IsMinimum(h, m) == \A i \in DOMAIN h : ~KeyLess(h[i].weight, h[m].weight)

\* the weights a strategy accepts, among those tried
LegalWeights == {weight \in Weights \cup {NoWeight} :
                    is_weight_legal(kind, IF weight = NoWeight
                                          THEN default_weight(kind)
                                          ELSE weight)}

\* C8: the queue never holds more than sample_size entries; below sample_size every
\* valid put is pushed and returns True; at sample_size a put is admitted iff its
\* key is strictly greater than the minimum key, and then exactly one entry with
\* the minimum key leaves; a key equal to the minimum is rejected, queue unchanged.
C8_BoundedQueue ==
    Ordering =>
        /\ Len(heap) <= sample_size
        /\ \A element \in Elements, weight \in LegalWeights, raws \in RawDraws(MaxZeroDraws) :
              LET r == OrderSampling_put(Self, element, weight, raws)
                  new_key == key(kind,
                                 IF weight = NoWeight THEN default_weight(kind) ELSE weight,
                                 raws[Len(raws)])
                  new_item == [value |-> element, weight |-> new_key]
              IN IF Len(heap) < sample_size
                 THEN /\ r.ret = "True"
                      /\ SeqBag(r.self.heap) = SeqBag(heap) (+) SetToBag({new_item})
                 ELSE \E m \in DOMAIN heap :
                        /\ IsMinimum(heap, m)
                        /\ r.ret = Bool(KeyLess(heap[m].weight, new_key))
                        /\ IF r.ret = "True"
                           THEN SeqBag(r.self.heap) =
                                    (SeqBag(heap) (-) SetToBag({heap[m]}))
                                        (+) SetToBag({new_item})
                           ELSE r.self.heap = heap

\* a full queue has met a key equal to its minimum, and has rejected it
C8_Witness ==
    /\ Ordering /\ PutReturned /\ result = "False"
    /\ sample_size > 1
    /\ Len(heap) = sample_size
    /\ \E x \in BagToSet(generated (-) SeqBag(heap)) :
          \A i \in DOMAIN heap : ~KeyLess(x.weight, heap[i].weight)

\* C9: after n valid puts the queue holds min(n, sample_size) of the items created
\* so far, each with the key created for it, and no item left out has a key
\* greater than a key in the queue: the queue's keys are the largest keys.
C9_LargestKeysKept ==
    Ordering =>
        /\ Len(heap) = Min(stream_size, sample_size)
        /\ SeqBag(heap) \sqsubseteq generated
        /\ BagCardinality(generated) = stream_size
        /\ \A x \in BagToSet(generated (-) SeqBag(heap)) :
              \A i \in DOMAIN heap : ~KeyLess(heap[i].weight, x.weight)

\* an item has been evicted, by an item with a greater key
C9_Witness ==
    /\ Ordering /\ PutReturned /\ result = "True"
    /\ sample_size > 1
    /\ stream_size > sample_size
    /\ \E x \in BagToSet(generated (-) SeqBag(heap)) :
          \A i \in DOMAIN heap : KeyLess(x.weight, heap[i].weight)

\* the domain of the weights of each strategy, as the documentation gives it
InDomain(class, weight) ==
    /\ weight.tag = "finite"
    /\ weight.num > 0
    /\ class = "ParetoSampling" => weight.num < weight.den

\* C10: a put with a weight raises BadWeightError exactly when the weight is
\* outside the domain of the strategy (finite and > 0; for Pareto, 0 < weight < 1);
\* a weight outside the domain is never replaced by a legal one (nothing enters the
\* queue), a weight inside it is counted and its item is made.
C10_BadWeightRaises ==
    Ordering =>
        \A element \in Elements, weight \in Weights, raws \in RawDraws(MaxZeroDraws) :
            LET r == OrderSampling_put(Self, element, weight, raws)
            IN /\ r.ret = "BadWeightError" <=> ~InDomain(kind, weight)
               /\ ~InDomain(kind, weight) => r.self = Self
               /\ InDomain(kind, weight) =>
                     /\ r.ret \in {"True", "False"}
                     /\ r.self.stream_size = stream_size + 1
                     /\ Len(heap) < sample_size =>
                           \E i \in DOMAIN r.self.heap :
                               r.self.heap[i] =
                                   [value |-> element,
                                    weight |-> key(kind, weight, raws[Len(raws)])]

\* Pareto has refused the weight 1
C10_Witness ==
    /\ kind = "ParetoSampling" /\ call.op = "put" /\ result = "BadWeightError"
    /\ call.weight = Finite(WeightDen, WeightDen)

Repeat(x, n) == [i \in 1..n |-> x]

\* the values put returns once the reservoir is full, for the skips ys
RECURSIVE Segments(_)
Segments(ys) ==
    IF ys = <<>>
    THEN <<>>
    ELSE Repeat("False", Head(ys)) \o <<"True">> \o Segments(Tail(ys))

Expected(k, ys) == Repeat("True", k) \o Segments(ys)

\* C5: with the skip generator yielding s1, s2, ..., put returns sample_size times
\* True and then, for each i in turn, s_i times False and one True; each skip is
\* pulled when the True that ends the skip before it is returned.
C5_ReturnValuesFollowSkips ==
    LET e == Expected(sample_size, yielded)
        before == Expected(sample_size, SubSeq(yielded, 1, Len(yielded) - 1))
    IN /\ Len(yielded) = skip_function
       /\ Len(returns) < Len(e)
       /\ returns = SubSeq(e, 1, Len(returns))
       /\ Len(reservoir) = sample_size
            => Len(returns) = Len(before) + (yielded[Len(yielded)] - skip)

\* the example of the documentation: sample_size = 5 and the skips 1, 0, 2, 0, 4
C5_Witness ==
    /\ sample_size = 5
    /\ Len(yielded) > 5
    /\ SubSeq(yielded, 1, 5) = <<1, 0, 2, 0, 4>>
    /\ returns = <<"True", "True", "True", "True", "True", "False", "True", "True",
                   "False", "False", "True", "True", "False", "False", "False", "False",
                   "True">>

\* the default weights, as the documentation of the strategies gives them
DocumentedDefault(class) ==
    CASE class = "EfraimidisSampling" -> Finite(1, 1)
      [] class = "ParetoSampling" -> Finite(1, 2)
      [] class = "SequentialPoissonSampling" -> Finite(1, 1)

\* C11: a put without a weight, and a put_iterable without weights, do what the same
\* call does with the default weight of the strategy (1 for Efraimidis, 1/2 for
\* Pareto, 1 for Sequential Poisson) in the place of each missing weight; the
\* default weight is legal, so neither call raises BadWeightError.
C11_DefaultWeight ==
    Ordering =>
        /\ default_weight(kind) = DocumentedDefault(kind)
        /\ is_weight_legal(kind, default_weight(kind))
        /\ \A element \in Elements, raws \in RawDraws(MaxZeroDraws) :
              LET r == OrderSampling_put(Self, element, NoWeight, raws)
              IN /\ r = OrderSampling_put(Self, element, DocumentedDefault(kind), raws)
                 /\ r.ret \in {"True", "False"}
        /\ \A elements \in SeqsUpTo(Elements, MaxSeqLen) :
              \A rawss \in [1..Len(elements) -> RawDraws(MaxZeroDraws)] :
                  LET r == AbstractWeightedReservoirSampling_put_iterable(
                               Self, elements, NoWeights, rawss)
                      defaults == [i \in 1..Len(elements) |-> DocumentedDefault(kind)]
                  IN /\ r = AbstractWeightedReservoirSampling_put_iterable(
                                Self, elements, WeightsOf(defaults), rawss)
                     /\ r.ret \in {"True", "False"}
                     /\ r.self.stream_size = stream_size + Len(elements)

\* a Pareto instance has taken a whole iterable without weights
C11_Witness ==
    /\ kind = "ParetoSampling" /\ call.op = "put_iterable"
    /\ call.weights = -1
    /\ call.elements = MaxSeqLen
    /\ result = "True"
    /\ stream_size > sample_size

\* the puts of the first n pairs of elements and weights, one after the other:
\* the instance they leave and whether one of them returned True
RECURSIVE PutsInTurn(_, _, _, _, _, _)
PutsInTurn(self, elements, weights, rawss, i, n) ==
    IF i > n
    THEN [self |-> self, changed |-> FALSE]
    ELSE LET r == OrderSampling_put(self, elements[i], weights[i], rawss[i])
             rest == PutsInTurn(r.self, elements, weights, rawss, i + 1, n)
         IN [self |-> rest.self, changed |-> r.ret = "True" \/ rest.changed]

\* C12: put_iterable with elements and weights puts the first
\* min(len(elements), len(weights)) pairs in order and nothing else, whatever the
\* longer iterable goes on with; stream_size grows by that minimum; the call
\* returns True iff one of the puts returned True.
C12_ZipStopsAtShortest ==
    Ordering =>
        \A elements \in SeqsUpTo({None, MaxElement}, MaxSeqLen),
           weights \in SeqsUpTo(IterableWeights \cup {NaN}, MaxSeqLen) :
            LET n == Min(Len(elements), Len(weights))
            IN (\A i \in 1..n : /\ elements[i] # None
                                /\ weights[i] \in LegalWeights)
               => \A rawss \in [1..n -> RawDraws(MaxZeroDraws)] :
                     LET r == AbstractWeightedReservoirSampling_put_iterable(
                                  Self, elements, WeightsOf(weights), rawss)
                         s == PutsInTurn(Self, elements, weights, rawss, 1, n)
                     IN /\ r.self = s.self
                        /\ r.self.stream_size = stream_size + n
                        /\ r.ret = Bool(s.changed)

\* both iterables given, the weights the shorter: the element left over was ignored
C12_Witness ==
    /\ Ordering /\ call.op = "put_iterable"
    /\ call.elements = MaxSeqLen
    /\ call.weights = MaxSeqLen - 1
    /\ result = "False"
    /\ stream_size = sample_size + 1
    /\ Len(stream) = stream_size

\* C13: sample() always returns the same reference: any two calls on one instance,
\* with whatever calls between them, return the identical view object.
C13_SampleSameReference ==
    \A i, j \in DOMAIN views : Is(views[i].view, views[j].view)

\* the same of the unweighted engine alone
SampleSameReferenceUnweighted ==
    Skipping => \A i \in DOMAIN views : Is(views[i].view, reservoir_view)

\* the items an instance holds for its readers: the reservoir, the queue's values
Held(self) ==
    IF self.kind \in OrderKinds
    THEN [i \in DOMAIN self.heap |-> self.heap[i].value]
    ELSE self.reservoir

\* C14: sample(), sample_size() and stream_size() leave every field of the
\* instance as it was; two sample() calls with no put between them return views of
\* the same length with the same element at every index.
C14_AccessorsChangeNothing ==
    /\ sample_size_(Self).self = Self
    /\ stream_size_(Self).self = Self
    /\ LET first == sample(Self, decorators)
           second == sample(first.self, decorators + 1)
       IN /\ first.self = Self
          /\ second.self = Self
          /\ SequenceDecorator__len__(second.self, first.ret)
                = SequenceDecorator__len__(second.self, second.ret)
          /\ \A item \in 0..(SequenceDecorator__len__(second.self, first.ret) - 1) :
                SequenceDecorator__getitem__(second.self, first.ret, item)
                    = SequenceDecorator__getitem__(second.self, second.ret, item)
    /\ \A i, j \in DOMAIN views : views[i].at = views[j].at => views[i].seen = views[j].seen

\* two sample() calls have been made on a full queue, with no put between them
C14_Witness ==
    /\ Ordering /\ call.op = "sample"
    /\ Len(views) = 2
    /\ views[1].at = views[2].at
    /\ views[1].at > sample_size
    /\ Len(views[2].seen) = sample_size
    /\ ~Is(views[1].view, views[2].view)

\* C15: a view returned by sample() is live: whatever has been put since, it has
\* the length and the elements the instance holds now, not those it showed when it
\* was returned.
C15_ViewIsLive ==
    \A i \in DOMAIN views : ListOfView(Self, views[i].view) = Held(Self)

\* a view was taken of a full reservoir or queue, and a later put has replaced an
\* element of it
C15_Witness ==
    /\ call.op = "put" /\ result = "True"
    /\ \E i \in DOMAIN views :
          /\ Len(views[i].seen) = sample_size
          /\ views[i].seen # Held(Self)
          /\ views[i].at < Len(stream)

\* C16: each of the four unweighted strategies is made by class(sample_size) for
\* every sample_size >= 1, and the instance then takes put, put_iterable and
\* put_sequence; waterman_sampling(collection, k) returns a list of
\* min(k, len(collection)) elements of the collection.
C16_StrategiesInterchangeable ==
    /\ (call.op = "__init__" /\ sample_size >= 1) => (result = "None" /\ Exists)
    /\ (call.op = "waterman_sampling" /\ sample_size >= 1) =>
          /\ result = "list"
          /\ Len(reservoir) = Min(sample_size, Len(stream))
          /\ \A i \in DOMAIN reservoir : \E j \in DOMAIN stream : reservoir[i] = stream[j]
    /\ Exists => result \notin {"TypeError", "NotImplementedError"}

\* the same of Vitter X, Vitter Z and Li L alone
StrategiesButWatermanInterchangeable ==
    kind # "WatermanSampling" => C16_StrategiesInterchangeable

\* ------------------------------------------------------ whole sampling
\* The last successful build was called on a population: positive weights and
\* their sum, as add leaves them.  (A build that raised InfeasibleCaseError
\* leaves some weights changed under the old sum, which is not a population.)
BuiltFromPopulation ==
    /\ sampling # NoSampling
    /\ \A i \in DOMAIN built.weights : Less(Zero, built.weights[i])
    /\ sum(built.weights) = built.weight_sum

\* C17: for a feasible population of n positively weighted elements and
\* 0 < k <= n, the tableau build(k) produces has at least n entries.
C17_TableauAtLeastPopulation ==
    BuiltFromPopulation
        => Len(sampling.sample_space) >= Len(built.weights)

\* What does hold of the length of the tableau: its samples, of k items each,
\* cover the population, and there are no more of them than entries.
TableauCoversPopulation ==
    BuiltFromPopulation
        => /\ Len(sampling.sample_space) * built.sample_size >= Len(built.weights)
           /\ Len(sampling.sample_space) <= Len(built.weights)

\* C18: for a feasible population and 0 < k <= n, the probabilities of the
\* tableau build(k) produces sum to 1, in exact arithmetic.
C18_ProbabilitiesSumToOne ==
    BuiltFromPopulation => sum(sampling.sample_probabilities) = One

\* a build that had to split the population over several samples
C18_Witness ==
    /\ BuiltFromPopulation
    /\ built.sample_size >= 2
    /\ Len(sampling.sample_space) >= 3
    /\ sum(sampling.sample_probabilities) = One

JessenSample__len__(self) == Len(self.data.items)

\* C19: every sample sample_space() enumerates, and every sample sample()
\* returns, of a JessenSampling built with build(k) has exactly k elements.
C19_SamplesHaveSampleSize ==
    sampling # NoSampling
        => /\ \A i \in DOMAIN JessenSampling_sample_space(sampling) :
                JessenSample__len__(JessenSampling_sample_space(sampling)[i][1])
                    = built.sample_size
           /\ \A x \in 0..(RandomDen - 1) :
                JessenSample__len__(JessenSampling_sample(sampling, x))
                    = built.sample_size

\* sample() has returned one of several samples of two or more elements
C19_Witness ==
    /\ sampling # NoSampling
    /\ call.op = "sample"
    /\ built.sample_size >= 2
    /\ Len(sampling.sample_space) >= 2
    /\ JessenSample__len__(result) = built.sample_size

\* the sum of the probabilities of the samples, from the j-th on, that contain item
RECURSIVE inclusion_probability(_, _, _)
inclusion_probability(self, item, j) ==
    IF j > Len(self.sample_space) THEN Zero
    ELSE Plus(IF \E p \in DOMAIN self.sample_space[j] : self.sample_space[j][p] = item
              THEN self.sample_probabilities[j]
              ELSE Zero,
              inclusion_probability(self, item, j + 1))

\* weight * k / total, in exact arithmetic
Share(weight, k, total) == Rational(weight.num * k * total.den, weight.den * total.num)

\* C20: for a feasible population and 0 < k <= n, the probabilities of the
\* samples that contain entry i sum to weight_i * k / (sum of all weights).
C20_RatioEstimator ==
    BuiltFromPopulation
        => \A i \in DOMAIN built.weights :
              inclusion_probability(sampling, i - 1, 1)
                  = Share(built.weights[i], built.sample_size, sum(built.weights))

\* entries of different weights, one of them in every sample and one not
C20_Witness ==
    /\ BuiltFromPopulation
    /\ built.sample_size >= 2
    /\ \E i, j \in DOMAIN built.weights :
          /\ inclusion_probability(sampling, i - 1, 1) = One
          /\ Less(inclusion_probability(sampling, j - 1, 1), One)
          /\ Less(Zero, inclusion_probability(sampling, j - 1, 1))
    /\ \A i \in DOMAIN built.weights :
          inclusion_probability(sampling, i - 1, 1)
              = Share(built.weights[i], built.sample_size, sum(built.weights))

\* The builder holds a population: positive weights and their sum, as add
\* leaves them.
HoldsPopulation(self) ==
    /\ \A i \in DOMAIN self.heap : Less(Zero, self.heap[i].weight)
    /\ sum(WeightsIn(self.heap)) = self.weight_sum

\* C21: for a builder holding n elements and 0 < k <= n, build(k) raises
\* InfeasibleCaseError iff some weight * k / (sum of weights) exceeds 1, which
\* is when check_feasibility(weights, k) is False; exactly 1 is feasible.
C21_InfeasibleIffNotFeasible ==
    HoldsPopulation(builder)
        => \A k \in 1..Len(builder.heap) :
              LET raises == JessenBuilder_build(builder, k).ret = "InfeasibleCaseError"
                  exceeds == \E i \in DOMAIN builder.heap :
                                Less(One, Share(builder.heap[i].weight, k,
                                                sum(WeightsIn(builder.heap))))
              IN /\ raises <=> exceeds
                 /\ raises <=> ~check_feasibility(WeightsIn(builder.heap), k)

\* a build has succeeded on a population with an inclusion probability of exactly 1
C21_Witness ==
    /\ call.op = "build"
    /\ result = "JessenSampling"
    /\ BuiltFromPopulation
    /\ check_feasibility(built.weights, built.sample_size)
    /\ \E i \in DOMAIN built.weights :
          Share(built.weights[i], built.sample_size, sum(built.weights)) = One
    /\ \E i \in DOMAIN built.weights :
          Less(Share(built.weights[i], built.sample_size, sum(built.weights)), One)

\* the position of the first entry, from the i-th on, whose weight * k / total
\* exceeds 1 (past the end if there is none)
RECURSIVE FirstInfeasible(_, _, _, _)
FirstInfeasible(weights, k, total, i) ==
    IF i > Len(weights) \/ Less(One, Share(weights[i], k, total)) THEN i
    ELSE FirstInfeasible(weights, k, total, i + 1)

\* C22: when build(k) raises InfeasibleCaseError the builder is not reset: it
\* still holds all n entries and the original weight sum, the entries before the
\* first infeasible one carry the negated normalized weight, and that entry and
\* the later ones carry their original positive weight.
C22_InfeasibleBuildLeavesPartlyNormalized ==
    HoldsPopulation(builder)
        => \A k \in 1..Len(builder.heap) :
              LET r == JessenBuilder_build(builder, k)
                  first == FirstInfeasible(WeightsIn(builder.heap), k, builder.weight_sum, 1)
              IN r.ret = "InfeasibleCaseError"
                    => /\ Len(r.self.heap) = Len(builder.heap)
                       /\ r.self.weight_sum = builder.weight_sum
                       /\ r.sampling = NoSampling
                       /\ \A i \in DOMAIN builder.heap :
                             /\ r.self.heap[i].value = builder.heap[i].value
                             /\ r.self.heap[i].weight =
                                   IF i < first
                                   THEN Share(builder.heap[i].weight, 0 - k,
                                              builder.weight_sum)
                                   ELSE builder.heap[i].weight

\* a build has raised after it had changed the weight of the first entry
C22_Witness ==
    /\ call.op = "build"
    /\ result = "InfeasibleCaseError"
    /\ Len(builder.heap) >= 2
    /\ Less(builder.heap[1].weight, Zero)
    /\ \E i \in DOMAIN builder.heap : Less(Zero, builder.heap[i].weight)
    /\ Less(Zero, builder.weight_sum)

\* C23: reset() returns a builder to its initial state from any reachable
\* state, the one left by a build that raised InfeasibleCaseError included: the
\* population is empty, the weight sum is 0, and the calls that follow give
\* what they give on a new builder.
C23_ResetGivesInitialState ==
    /\ JessenBuilder_reset(builder) = JessenBuilder__init__
    /\ JessenBuilder_reset(builder).heap = <<>>
    /\ JessenBuilder_reset(builder).weight_sum = Zero
    /\ call.op = "reset" => builder = JessenBuilder__init__
    /\ \A weight \in JessenWeights :
          LET again == JessenBuilder_add(JessenBuilder_reset(builder), 0, weight)
              fresh == JessenBuilder_add(JessenBuilder__init__, 0, weight)
          IN /\ again = fresh
             /\ \A k \in 0..2 :
                   JessenBuilder_build(again.self, k) = JessenBuilder_build(fresh.self, k)

\* reset has been called on the builder a failed build had left
C23_Witness ==
    /\ call.op = "reset"
    /\ call.infeasible > 0
    /\ builder = JessenBuilder__init__

\* the step is a build that returned a JessenSampling
BuildSucceeds == call'.op = "build" /\ result' = "JessenSampling"

C25_BadSampleSizeRaises ==
    \A k \in (0 - 1)..(Len(builder.heap) + 2) :
        LET r == JessenBuilder_build(builder, k)
        IN /\ r.ret = "ValueError" <=> (k <= 0 \/ k > Len(builder.heap))
           /\ r.ret = "ValueError" => r.self = builder /\ r.sampling = NoSampling

\* What holds for every weight add accepts: a sample size out of range raises
\* ValueError and leaves the builder as it was.
BadSampleSizeRaisesAndKeeps ==
    \A k \in (0 - 1)..(Len(builder.heap) + 2) :
        (k <= 0 \/ k > Len(builder.heap))
            => /\ JessenBuilder_build(builder, k).ret = "ValueError"
               /\ JessenBuilder_build(builder, k).self = builder

\* weight <= 0, of a float
NonPositive(weight) ==
    \/ weight.den # 0 /\ weight.num <= 0
    \/ weight = minus_inf

\* the number of pairs before the first one of a non-positive weight
RECURSIVE Accepted(_)
Accepted(pairs) ==
    IF pairs = <<>> \/ NonPositive(Head(pairs)[2]) THEN 0 ELSE 1 + Accepted(Tail(pairs))

\* the builder with the first n pairs appended and their weights added
RECURSIVE WithPairs(_, _, _)
WithPairs(self, pairs, n) ==
    IF n = 0 THEN self
    ELSE WithPairs(JessenBuilder(Append(self.heap, Weighted(Head(pairs)[1], Head(pairs)[2])),
                                 Plus(self.weight_sum, Head(pairs)[2])),
                   Tail(pairs), n - 1)

\* what a batch add of the pairs has to give
BatchAdds(r, pairs) ==
    /\ r.self = WithPairs(builder, pairs, Accepted(pairs))
    /\ Len(r.self.heap) = Len(builder.heap) + Accepted(pairs)
    /\ r.ret = IF Accepted(pairs) < Len(pairs) THEN "BadWeightError" ELSE "self"

\* C26: add(item, weight) raises BadWeightError iff weight <= 0 and then
\* leaves the population and the weight sum unchanged; otherwise it appends
\* exactly one entry and adds the weight to the weight sum.  A batch add that
\* meets a non-positive weight at position i raises after it has added exactly
\* the first i pairs.
C26_AddRejectsNonPositive ==
    /\ \A weight \in AddWeights \cup JessenWeights \cup {inf, minus_inf}, item \in {0, 10} :
          LET r == JessenBuilder_add(builder, item, weight)
          IN /\ r.ret = "BadWeightError" <=> NonPositive(weight)
             /\ r.ret = "BadWeightError" => r.self = builder
             /\ r.ret # "BadWeightError"
                   => /\ r.ret = "self"
                      /\ r.self.heap = Append(builder.heap, Weighted(item, weight))
                      /\ r.self.weight_sum = Plus(builder.weight_sum, weight)
    /\ \A weights \in AddBatches :
          LET n == Len(weights)
              mapping(items) == [item \in {items[i] : i \in 1..n} |->
                                    weights[CHOOSE i \in 1..n : items[i] = item]]
          IN /\ BatchAdds(JessenBuilder_add_weights(builder, weights),
                          zip(range(n), weights))
             /\ \A m \in 0..(n + 1) :
                   BatchAdds(JessenBuilder_add_range(builder, PopulationOf(m), weights),
                             zip(PopulationOf(m), weights))
             /\ BatchAdds(JessenBuilder_add_mapping(builder, TRUE, n, mapping(range(n))),
                          zip(range(n), weights))
             /\ BatchAdds(JessenBuilder_add_mapping(builder, FALSE, PopulationOf(n),
                                                    mapping(PopulationOf(n))),
                          zip(PopulationOf(n), weights))
             /\ BatchAdds(JessenBuilder_add_dictionary(builder,
                                                       zip(PopulationOf(n), weights)),
                          zip(PopulationOf(n), weights))

\* a batch add of two weights or more has raised after it had added one pair
\* or more
C26_Witness ==
    /\ call.op \in {"add_weights", "add_range", "add_mapping", "add_dictionary"}
    /\ result = "BadWeightError"
    /\ call.weights >= 2
    /\ call.added >= 1
    /\ call.added < call.weights
    /\ Len(builder.heap) >= call.added

\* what the generator yields from now on, until it ends
RECURSIVE Drain(_)
Drain(generator) ==
    LET r == sample_space_next(generator)
    IN IF r.ret = "StopIteration" THEN <<>> ELSE <<r.ret>> \o Drain(r.generator)

\* C27: sample_space() is restartable and finite: every generator it has
\* returned, whatever the calls of sample and the steps of the other generators
\* since, has yielded and will yield the pairs of the sample space and their
\* probabilities in the order of the tableau, as a new one does, and ends
\* after them.
C27_SampleSpaceRestartable ==
    \A i \in 1..Len(iterators) :
        LET generator == iterators[i]
            all == JessenSampling_sample_space(generator.self)
        IN /\ generator.produced \o Drain(generator) = all
           /\ Drain(sample_space_generator(generator.self)) = all
           /\ generator.pos <= Len(generator.self.sample_space)
           /\ generator.done => generator.produced = all
           /\ \A j \in 1..Len(iterators) :
                 LET other == iterators[j].produced
                     n == Min(Len(other), Len(generator.produced))
                 IN iterators[j].self = generator.self
                       => SubSeq(other, 1, n) = SubSeq(generator.produced, 1, n)

\* after a call of sample, one generator stopped part of the way and a later
\* one run to its end over two pairs or more
C27_Witness ==
    /\ Len(iterators) = 2
    /\ iterators[1].pos >= 1
    /\ ~iterators[1].done
    /\ iterators[1].pos < Len(sampling.sample_space)
    /\ iterators[2].done
    /\ iterators[2].pos >= 2
    /\ call.op = "sample"

\* ------------------------------------------------------------ AliasMethod
\* 0 <= a <= 1
InUnit(a) == LessOrEqual(Zero, a) /\ LessOrEqual(a, One)

\* every entry of the vector is >= 0
NonNegative(probabilities) ==
    \A i \in 1..Len(probabilities) : LessOrEqual(Zero, probabilities[i])

\* the indices [0, n) of the instance
Indices(self) == 0..(self.n - 1)

\* sample returns an index for every draw, and every alias is an index
IndexInRange(self) ==
    /\ self.n = Len(distribution)
    /\ self.n >= 1
    /\ Len(self.u) = self.n
    /\ Len(self.k) = self.n
    /\ \A i \in 1..self.n : self.k[i] \in Indices(self)
    /\ \A x \in 0..(RandomDen - 1) : AliasMethod_sample(self, x) \in Indices(self)
    /\ \A x \in 0..(self.n * AliasDen - 1) :
          AliasMethod_sample_at(self, x, self.n * AliasDen) \in Indices(self)

\* construction raises ValueError from the empty vector, and from no other
EmptyRaises ==
    /\ AliasMethod__init__(<<>>).ret = "ValueError"
    /\ call.op = "AliasMethod"
          => /\ result = "ValueError" <=> call.probabilities = <<>>
             /\ result # "ValueError" => distribution = call.probabilities

\* The claim C28 as it is stated, of any vector: every alias is an index, every
\* threshold is in [0, 1] and sample returns an index.
C28_ThresholdsInUnit ==
    /\ EmptyRaises
    /\ alias_method # NoAlias
          => /\ IndexInRange(alias_method)
             /\ \A i \in 1..alias_method.n : InUnit(alias_method.u[i])

\* C28: an AliasMethod built from a vector of length n >= 1 returns an index
\* in [0, n) for every draw, every alias k[i] is in [0, n), and every threshold
\* u[i] is in [0, 1] when every entry of the vector is >= 0; construction from
\* an empty vector raises ValueError.
C28_ThresholdsInUnitOfNonNegative ==
    /\ EmptyRaises
    /\ alias_method # NoAlias
          => /\ IndexInRange(alias_method)
             /\ NonNegative(distribution)
                   => \A i \in 1..alias_method.n : InUnit(alias_method.u[i])

\* sample has returned the alias of a slot whose threshold is inside (0, 1),
\* on a vector without a negative entry
C28_Witness ==
    /\ alias_method # NoAlias
    /\ NonNegative(distribution)
    /\ call.op = "sample"
    /\ \E i \in 1..alias_method.n :
          /\ Less(Zero, alias_method.u[i])
          /\ Less(alias_method.u[i], One)
          /\ alias_method.k[i] # i - 1
          /\ result = alias_method.k[i]

\* n times the probability the table gives the index j: its own threshold and
\* what the slots that have it as their alias leave
Mass(self, j) ==
    sum([i \in 1..self.n |->
            IF i - 1 = j THEN self.u[i]
            ELSE IF self.k[i] = j THEN Plus(One, Negative(self.u[i]))
            ELSE Zero])

\* the draws x/(n * Grid), on which every n * x - i falls on a multiple of
\* 1/Grid, as every threshold does
Grid == AliasDen * 10
GridDraws(self) == 0..(self.n * Grid - 1)

\* the number of those draws for which sample returns j
Returning(self, j) ==
    Cardinality({x \in GridDraws(self) : AliasMethod_sample_at(self, x, self.n * Grid) = j})

\* C29: the alias table is exact: for a probability vector p of length n
\* that sums to 1, after construction every index j has
\* (u[j] + the sum over the slots i # j with k[i] = j of (1 - u[i])) / n = p[j],
\* and sample returns j with probability exactly p[j].
C29_AliasTableExact ==
    (alias_method # NoAlias /\ NonNegative(distribution) /\ sum(distribution) = One)
        => \A j \in Indices(alias_method) :
              /\ Mass(alias_method, j)
                    = Rational(alias_method.n * distribution[j + 1].num,
                               distribution[j + 1].den)
              /\ Rational(Returning(alias_method, j), alias_method.n * Grid)
                    = distribution[j + 1]

\* sample has been called on the table of three or more probabilities that
\* sum to 1, one slot of which is shared with its alias
C29_Witness ==
    /\ alias_method # NoAlias
    /\ NonNegative(distribution)
    /\ sum(distribution) = One
    /\ Len(distribution) >= 3
    /\ call.op = "sample"
    /\ \E i \in 1..alias_method.n :
          /\ Less(Zero, alias_method.u[i])
          /\ Less(alias_method.u[i], One)
          /\ alias_method.k[i] # i - 1

\* ---------------------------------------------------------- construction
\* what the claim C30 says of the engine the state holds
EagerlyRejected ==
    /\ (call.op = "__init__" /\ sample_size < 1)
          => /\ result = "ValueError"
             /\ ~Constructed
    /\ (call.op = "__init__" /\ sample_size >= 1)
          => /\ result = "None"
             /\ Constructed
             /\ reservoir = <<>>
             /\ heap = <<>>
             /\ stream_size = 0
    /\ sample_size < 1 => (stream = <<>> /\ stream_size = 0 /\ call.op \in {"none", "__init__"})

\* C30: constructing any engine (skip-based unweighted, Waterman, order
\* sampling) with sample_size < 1 raises ValueError in the constructor, before
\* any element can be put; with sample_size >= 1 construction succeeds with an
\* empty reservoir and stream_size 0.
C30_ConstructorRejectsEagerly == EagerlyRejected

\* the same of every engine but WatermanSampling
ConstructorButWatermanRejectsEagerly ==
    kind # "WatermanSampling" => EagerlyRejected

\* ------------------------------------------------------------------ swor
\* n >= k >= 0
SworArguments(g) == g.n >= g.k /\ g.k >= 0

C32_SkipNeverNegative ==
    Skipping =>
        /\ skip >= 0
        /\ \A sequence \in SeqsUpTo(Elements, MaxSeqLen) :
           \A tape \in Tapes(sample_size, Len(sequence)) :
              LET filled == put_sequence_fill(Self, sequence, 0, FALSE)
                  jumped == put_sequence_jump(filled.self, sequence, filled.offset,
                                              filled.return_value, tape)
                  r == AbstractReservoirSampling_put_sequence(Self, sequence, tape)
              IN /\ Len(sequence) - jumped.offset <= jumped.self.skip
                 /\ Len(sequence) - jumped.offset >= 0
                 /\ r.self.skip = jumped.self.skip - (Len(sequence) - jumped.offset)
                 /\ r.self.skip >= 0

\* put_sequence has replaced a slot of the full reservoir and its final
\* subtraction has left the skip 0
C32_Witness ==
    /\ Skipping
    /\ call.op = "put_sequence"
    /\ result = "True"
    /\ Len(reservoir) = sample_size
    /\ Len(stream) > sample_size + 1
    /\ rng >= 1
    /\ skip = 0
    /\ skip_function >= 2

\* the indices at which two lists of one length differ
Changed(before, after) == {i \in 1..Len(before) : before[i] # after[i]}

\* after is before with more items at its end
AppendedTo(before, after) ==
    /\ Len(after) >= Len(before)
    /\ \A i \in 1..Len(before) : after[i] = before[i]

\* one step on the reservoir: an append at the end while it is below k, one
\* index replaced in place (or none) once it holds k
ReservoirStep(before, after, k) ==
    IF Len(before) < k
    THEN after = before \/ (Len(after) = Len(before) + 1 /\ AppendedTo(before, after))
    ELSE Len(after) = k /\ Cardinality(Changed(before, after)) <= 1

\* C33: the reservoir of an unweighted engine is created empty, its length
\* never decreases and never exceeds k (it is the smaller of k and the number of
\* elements supplied), it grows only by appending at the end while below k, and
\* once it holds k items every change is the replacement of one index in place:
\* by put of either engine, by the first loop of put_sequence (appends only, up to
\* k) and by a step of its second loop (one index of a full reservoir).
C33_ReservoirGrowsThenReplaces ==
    kind \in Unweighted =>
        /\ \A class \in Strategies : new(class, sample_size, 0).self.reservoir = <<>>
        /\ WatermanSampling__init__(NoInstance("WatermanSampling", sample_size)).self.reservoir
               = <<>>
        /\ stream = <<>> => reservoir = <<>>
        /\ Len(reservoir) = Min(Len(stream), sample_size)
        /\ \A tape \in UnweightedTapes(1), draws \in UnweightedDraws(1) :
               ReservoirStep(reservoir,
                             Strategy_put(Self, Len(stream) + 1, tape, draws).self.reservoir,
                             sample_size)
        /\ kind = "AbstractReservoirSampling" =>
               \A n \in 0..MaxSeqLen :
                   LET filled == put_sequence_fill(Self, Coming(n), 0, FALSE)
                   IN /\ AppendedTo(reservoir, filled.self.reservoir)
                      /\ Len(filled.self.reservoir) = Min(Len(reservoir) + n, sample_size)
                      /\ Len(reservoir) = sample_size => filled.self = Self
                      /\ \A tape \in Tapes(sample_size, 1) :
                             LET jumped == put_sequence_jump(
                                               [filled.self EXCEPT !.skip = n], Coming(n + 1),
                                               0, FALSE, tape)
                             IN Len(filled.self.reservoir) = sample_size =>
                                    /\ jumped.return_value
                                    /\ ReservoirStep(filled.self.reservoir,
                                                     jumped.self.reservoir, sample_size)

\* a put_sequence has replaced an item of the full reservoir
C33_Witness ==
    /\ kind = "AbstractReservoirSampling"
    /\ call.op = "put_sequence"
    /\ result = "True"
    /\ Len(reservoir) = sample_size
    /\ \E i \in 1..Len(reservoir) : reservoir[i] > sample_size

\* C34: on a full reservoir Waterman's put takes one value r of
\* randrange(0, t), t the stream size with the current element counted; for
\* every r in [0, t) the element is admitted iff r < k, and then it overwrites
\* slot r, nothing else, and put returns True; otherwise the reservoir is
\* unchanged and put returns False; stream_size grows by exactly 1 either way.
C34_WatermanPut ==
    (kind = "WatermanSampling" /\ Len(reservoir) = sample_size) =>
        LET t == stream_size + 1
            element == Len(stream) + 1
        IN /\ UnweightedDraws(1) = {<<r>> : r \in 0..(t - 1)}
           /\ \A r \in 0..(t - 1) :
                  LET o == WatermanSampling_put(Self, element, <<r>>)
                  IN /\ o.self.stream_size = t
                     /\ o.self.rng = rng + 1
                     /\ o.tape = <<>>
                     /\ o.self.sample_size = sample_size
                     /\ r < sample_size =>
                            /\ o.ret = "True"
                            /\ o.self.reservoir = [reservoir EXCEPT ![r + 1] = element]
                     /\ r >= sample_size =>
                            /\ o.ret = "False"
                            /\ o.self.reservoir = reservoir

\* a Waterman put on a full reservoir has been refused, and one before it was
\* admitted in place of an earlier element
C34_Witness ==
    /\ kind = "WatermanSampling"
    /\ call.op = "put"
    /\ result = "False"
    /\ Len(reservoir) = sample_size
    /\ stream_size = Len(stream)
    /\ \E i \in 1..Len(reservoir) : reservoir[i] > sample_size

\* C39: in every reachable state of an unweighted engine, skip-based or
\* Waterman, the slots of the reservoir hold elements of pairwise distinct
\* positions of the stream supplied so far by put, put_iterable and
\* put_sequence (the element supplied at position p is p).
C39_SlotsFromDistinctPositions ==
    kind \in Unweighted =>
        /\ \A i \in 1..Len(reservoir) :
               /\ reservoir[i] \in 1..Len(stream)
               /\ stream[reservoir[i]] = reservoir[i]
        /\ \A i, j \in 1..Len(reservoir) : reservoir[i] = reservoir[j] => i = j

\* every slot of a reservoir of two slots or more has been replaced
C39_Witness ==
    /\ kind \in Unweighted
    /\ sample_size >= 2
    /\ Len(reservoir) = sample_size
    /\ \A i \in 1..Len(reservoir) : reservoir[i] > sample_size

\* the heap build(size) starts its loop with, for a builder that passes the
\* checks of build
LoopHeap(self, size) ==
    heapify(JessenBuilder_normalize(self.heap, 1, size, self.weight_sum).heap)

\* the loop of build(size) on the builder, turn by turn
Loop(self, size) == JessenBuilder_iterations(LoopHeap(self, size), size, One, <<>>)

\* the sizes with which build gets to its loop
Buildable(self) ==
    {size \in 1..Len(self.heap) :
        JessenBuilder_normalize(self.heap, 1, size, self.weight_sum).ret = "None"}

\* the magnitude of an entry of the heap, which holds the negated weights
Magnitude(weighted) == Negative(weighted.weight)

\* the turns are those of the loop: the tableau they record is the one build
\* hands to JessenSampling
TurnsOfLoop(self, size) ==
    LET turns == SelectSeq(Loop(self, size).turns, LAMBDA turn : ~turn.breaks)
    IN JessenBuilder_loop(LoopHeap(self, size), size, Tableau(<<>>, <<>>), One)
           = Tableau([i \in 1..Len(turns) |-> new_sample(turns[i].new_weighted)],
                     [i \in 1..Len(turns) |-> turns[i].reduce_by])

\* the magnitudes of the entries a turn popped
PoppedMagnitudes(turn) ==
    {Magnitude(turn.new_weighted[i]) : i \in DOMAIN turn.new_weighted}
SmallestPopped(turn) ==
    CHOOSE m \in PoppedMagnitudes(turn) : \A other \in PoppedMagnitudes(turn) : ~Less(other, m)
LargestPopped(turn) ==
    CHOOSE m \in PoppedMagnitudes(turn) : \A other \in PoppedMagnitudes(turn) : ~Less(m, other)

\* what a turn does once reduce_by is known: it stops the loop when reduce_by
\* is 0; otherwise it takes reduce_by from the balance and pushes back the
\* popped entries that have magnitude left, with what they have left
TurnActsOn(turn) ==
    IF turn.reduce_by = Zero
    THEN turn.breaks
    ELSE /\ ~turn.breaks
         /\ turn.balance_left = Plus(turn.overall_balance, Negative(turn.reduce_by))
         /\ SeqBag(turn.pushed)
               = SeqBag(turn.left)
                 (+) SeqBag(SelectSeq(
                         [i \in DOMAIN turn.new_weighted |->
                             [turn.new_weighted[i] EXCEPT
                                 !.weight = Plus(@, turn.reduce_by)]],
                         LAMBDA w : Less(Zero, Magnitude(w))))

\* the turns of a loop record their samples with probability reduce_by, in order
Recorded(self, size) ==
    /\ TurnsOfLoop(self, size)
    /\ \A i \in DOMAIN Loop(self, size).turns :
           /\ Len(Loop(self, size).turns[i].new_weighted) = size
           /\ Loop(self, size).turns[i].breaks => i = Len(Loop(self, size).turns)

\* Heaps that hold magnitudes 0 and 1, and the sizes and balances 0 and 1, a
\* turn can start with: those with which the loop breaks are among them.  (The
\* finite weights of a builder whose weight sum is infinite normalize to 0.)
TurnHeaps ==
    {heapify(SubSeq([i \in DOMAIN s |-> Weighted(i - 1, Negative(s[i]))], 1, Len(s))) :
        s \in SeqsUpTo({Zero, One}, MaxPopulation) \ {<<>>}}
TurnsFrom ==
    UNION {{JessenBuilder_iteration(h, size, overall_balance) :
               size \in 1..Len(h), overall_balance \in {Zero, One}} : h \in TurnHeaps}

\* reduce_by of a turn as C35 states it
ReduceByAsStated(turn) ==
    turn.reduce_by =
        IF turn.left # <<>>
        THEN min(LargestPopped(turn), Plus(turn.overall_balance, Magnitude(turn.left[1])))
        ELSE LargestPopped(turn)

\* reduce_by of a turn: of the smallest popped magnitude, which is that of the
\* entry popped last, and the balance minus the magnitude of the next top
ReduceByOfTurn(turn) ==
    /\ SmallestPopped(turn) = Magnitude(turn.new_weighted[Len(turn.new_weighted)])
    /\ turn.reduce_by =
           IF turn.left # <<>>
           THEN min(SmallestPopped(turn),
                    Plus(turn.overall_balance, Negative(Magnitude(turn.left[1]))))
           ELSE SmallestPopped(turn)

\* C35 as stated: in each turn of the build loop reduce_by is the minimum of the
\* largest popped magnitude and the balance plus the magnitude of the next heap
\* top, or the largest popped magnitude if the heap is empty.
C35_ReduceByOfLargestAndSum ==
    \A size \in Buildable(builder) :
        /\ Recorded(builder, size)
        /\ \A i \in DOMAIN Loop(builder, size).turns :
               /\ ReduceByAsStated(Loop(builder, size).turns[i])
               /\ TurnActsOn(Loop(builder, size).turns[i])

\* C35, amended: in each turn of the build loop, after popping k entries,
\* reduce_by is the minimum of the smallest popped magnitude (that of the entry
\* popped last) and the balance minus the magnitude of the next heap top, or
\* just the smallest popped magnitude if the heap is now empty; the loop stops
\* when reduce_by is 0, otherwise the sample is recorded with probability
\* reduce_by, the balance is decremented by reduce_by and exactly the popped
\* entries with remaining magnitude > 0 are pushed back.  This holds of every
\* turn of every loop a builder can run, and of the turns from TurnHeaps.
C35_ReduceByOfSmallestAndDifference ==
    /\ \A size \in Buildable(builder) :
           /\ Recorded(builder, size)
           /\ \A i \in DOMAIN Loop(builder, size).turns :
                  /\ ReduceByOfTurn(Loop(builder, size).turns[i])
                  /\ TurnActsOn(Loop(builder, size).turns[i])
    /\ builder.heap = <<>> =>
           /\ \A turn \in TurnsFrom : ReduceByOfTurn(turn) /\ TurnActsOn(turn)
           /\ \E turn \in TurnsFrom : turn.breaks /\ turn.left # <<>>
           /\ \E turn \in TurnsFrom : turn.breaks /\ turn.left = <<>>

\* the builder the last successful build was called on
BuiltOn ==
    JessenBuilder(SubSeq([i \in DOMAIN built.weights |-> Weighted(i - 1, built.weights[i])],
                         1, Len(built.weights)),
                  built.weight_sum)

\* a build has succeeded whose loop had a turn that took the balance minus the
\* next top, less than every popped magnitude, and pushed all it popped back,
\* and a turn that pushed back some of the entries it popped and not others
C35_Witness ==
    /\ BuiltFromPopulation
    /\ call.op = "build"
    /\ built.sample_size >= 2
    /\ \E i, j \in DOMAIN Loop(BuiltOn, built.sample_size).turns :
          LET turn == Loop(BuiltOn, built.sample_size).turns[i]
              other == Loop(BuiltOn, built.sample_size).turns[j]
          IN /\ Less(turn.reduce_by, SmallestPopped(turn))
             /\ Len(turn.pushed) = Len(turn.left) + built.sample_size
             /\ Len(other.pushed) > Len(other.left)
             /\ Len(other.pushed) < Len(other.left) + built.sample_size

\* a builder holds entries whose build would break out of its loop
BreakingTurn ==
    \E size \in Buildable(builder) : \E i \in DOMAIN Loop(builder, size).turns :
        Loop(builder, size).turns[i].breaks

\* what an entry a turn popped has left once reduce_by is taken from it
Residual(turn, i) == Negative(Plus(turn.new_weighted[i].weight, turn.reduce_by))

\* the entries a turn popped and did not push back: all of them when it
\* breaks, those without a residual above 0 otherwise
Dropped(turn) ==
    {i \in DOMAIN turn.new_weighted : turn.breaks \/ ~Less(Zero, Residual(turn, i))}

\* C36: for every feasible population and every k with 0 < k <= n the build loop
\* terminates, after no more turns than the population has entries, and only
\* when fewer than k entries remain on the heap or reduce_by is 0; in exact
\* arithmetic the heap is then empty and the overall balance 0, and no entry
\* was dropped with weight left: the popped entries of a turn that are not
\* pushed back have exactly 0 left (and all of a turn that breaks have 0).
C36_LoopEndsWithNothingLeft ==
    HoldsPopulation(builder) =>
        \A size \in Buildable(builder) :
            LET loop == Loop(builder, size)
                last == loop.turns[Len(loop.turns)]
            IN /\ Len(loop.turns) \in 1..Len(builder.heap)
               /\ Len(loop.heap) < size \/ last.reduce_by = Zero
               /\ loop.heap = <<>>
               /\ loop.overall_balance = Zero
               /\ \A i \in DOMAIN loop.turns :
                      /\ loop.turns[i].breaks =>
                             /\ i = Len(loop.turns)
                             /\ PoppedMagnitudes(loop.turns[i]) = {Zero}
                      /\ ~loop.turns[i].breaks =>
                             \A j \in Dropped(loop.turns[i]) :
                                 Residual(loop.turns[i], j) = Zero

\* a build of k >= 2 has succeeded on a population of different weights whose
\* loop took three turns or more and pushed entries back
C36_Witness ==
    /\ BuiltFromPopulation
    /\ call.op = "build"
    /\ result = "JessenSampling"
    /\ built.sample_size >= 2
    /\ \E i, j \in DOMAIN built.weights : built.weights[i] # built.weights[j]
    /\ LET loop == Loop(BuiltOn, built.sample_size)
       IN /\ Len(loop.turns) >= 3
          /\ loop.heap = <<>>
          /\ loop.overall_balance = Zero
          /\ \E i \in DOMAIN loop.turns : Len(loop.turns[i].pushed) > Len(loop.turns[i].left)

\* the magnitudes on a heap
Magnitudes(h) == [i \in DOMAIN h |-> Magnitude(h[i])]

\* k times the balance
Times(k, a) == Rational(k * a.num, a.den)

\* the heap sums to k times the balance, and no magnitude is above the balance
Balanced(h, k, overall_balance) ==
    /\ sum(Magnitudes(h)) = Times(k, overall_balance)
    /\ \A i \in DOMAIN h : LessOrEqual(Magnitude(h[i]), overall_balance)

\* C37: in exact arithmetic and on feasible input, whenever the build loop
\* comes to its test (and so at the start of every turn) the magnitudes left on
\* the heap sum to k times overall_balance and each of them is at most
\* overall_balance.
C37_HeapSumsToBalance ==
    HoldsPopulation(builder) =>
        \A size \in Buildable(builder) :
            LET loop == Loop(builder, size)
            IN /\ loop.turns[1].heap = LoopHeap(builder, size)
               /\ loop.turns[1].overall_balance = One
               /\ \A i \in DOMAIN loop.turns :
                      /\ Len(loop.turns[i].heap) >= size
                      /\ Balanced(loop.turns[i].heap, size, loop.turns[i].overall_balance)
                      /\ Balanced(loop.turns[i].pushed, size, loop.turns[i].balance_left)
                      /\ i < Len(loop.turns) =>
                             /\ loop.turns[i + 1].heap = loop.turns[i].pushed
                             /\ loop.turns[i + 1].overall_balance
                                    = loop.turns[i].balance_left
               /\ Balanced(loop.heap, size, loop.overall_balance)

\* a build of k >= 2 has succeeded whose loop started a turn with a balance
\* below 1, an entry as large as the balance and one smaller
C37_Witness ==
    /\ BuiltFromPopulation
    /\ call.op = "build"
    /\ result = "JessenSampling"
    /\ built.sample_size >= 2
    /\ \E i \in DOMAIN Loop(BuiltOn, built.sample_size).turns :
          LET turn == Loop(BuiltOn, built.sample_size).turns[i]
          IN /\ Less(turn.overall_balance, One)
             /\ Balanced(turn.heap, built.sample_size, turn.overall_balance)
             /\ \E a, b \in DOMAIN turn.heap :
                    /\ Magnitude(turn.heap[a]) = turn.overall_balance
                    /\ Less(Magnitude(turn.heap[b]), turn.overall_balance)

\* the entries of a tableau: a probability above 0 each, and k entries of the
\* population at different positions (the items are the positions)
TableauEntries(self, k) ==
    /\ Len(self.sample_space) = Len(self.sample_probabilities)
    /\ \A i \in DOMAIN self.sample_space :
           /\ Less(Zero, self.sample_probabilities[i])
           /\ Len(self.sample_space[i]) = k
           /\ \A a, b \in DOMAIN self.sample_space[i] :
                  self.sample_space[i][a] = self.sample_space[i][b] => a = b

\* C38: every tableau entry recorded by a successful build has a probability
\* above 0 and consists of k entries of the population at pairwise distinct
\* positions; the tableau of a build that passed the checks of build is never
\* empty, so the alias table over it is constructed without an error.  (A
\* builder that a failed build left partly normalized is not looked at.)
C38_TableauEntriesPositiveAndDistinct ==
    /\ sampling # NoSampling =>
           /\ TableauEntries(sampling, built.sample_size)
           /\ sampling.sample_space # <<>>
    /\ infeasible = 0 =>
         \A size \in Buildable(builder) :
           /\ JessenBuilder_build(builder, size).ret = "JessenSampling"
           /\ TableauEntries(JessenBuilder_build(builder, size).sampling, size)

\* What does hold: the same of a builder that holds a population of finite
\* weights above 0, in exact arithmetic.
TableauEntriesOfPopulation ==
    /\ BuiltFromPopulation =>
           /\ TableauEntries(sampling, built.sample_size)
           /\ sampling.sample_space # <<>>
    /\ HoldsPopulation(builder) =>
           \A size \in Buildable(builder) :
               /\ JessenBuilder_build(builder, size).ret = "JessenSampling"
               /\ TableauEntries(JessenBuilder_build(builder, size).sampling, size)

\* C40: no skip or key computation raises for any raw draw in [0, 1), the draw
\* 0 included, since every variate that goes into a formula undefined at 0 is
\* drawn through random_exclusive: the key of Efraimidis, Pareto and
\* Sequential Poisson, and the skip of Li L and of Vitter Z.
C40_NoVariateComputationRaises ==
    call.op \in {"key", "li_l", "vitter_z"} => result \in {"float", "yield"}

\* What does hold: the keys and the skip of Li L never raise, in exact
\* arithmetic, and never take the raw draw 0 into their formulas; the skip of
\* Vitter Z raises only when a raw draw taken for w by rng.random() is 0, and
\* would not, had w come through random_exclusive.
VariatesButVitterZ ==
    /\ call.op \in {"key", "li_l"} => result \in {"float", "yield"}
    /\ call.op = "vitter_z" =>
           /\ result \in {"yield", "ZeroDivisionError"}
           /\ result = "ZeroDivisionError" <=> call.raws[Len(call.raws)] = 0
    /\ \A k \in 1..MaxSampleSize, raws \in RawDraws(MaxZeroDraws) :
           /\ vitter_z_w_Exclusive(k, raws).value # ZeroDivisionError
           /\ Head(raws) = 0 => vitter_z_w(k, raws).value = ZeroDivisionError

====
